---- MODULE Spec2Model ----
(***************************************************************************)
(* A model of easy_db's DataBase handle (src/easy_db/database.py) and of   *)
(* the helpers it calls (src/easy_db/util.py): the pull cache, the         *)
(* memoized table list and schemas, and the chunked, retrying append.      *)
(*                                                                         *)
(* A Python string is a sequence of one-character strings, so that         *)
(* substring tests, joins and sorting are computed as the code computes    *)
(* them.  A Python value is a record [ty, n, s]: its type name, its number *)
(* and its text.                                                           *)
(***************************************************************************)
EXTENDS Integers, Sequences, FiniteSets, TLC

(***************************************************************************)
(* Strings                                                                 *)
(***************************************************************************)

\* The characters the model uses, in code point order (Python compares
\* strings by code point).
CodeOrder ==
    << " ", "'", "(", ")", "-", ".", "/", "0", "1", "2", "3", "4", "5", "6",
       "7", "8", "9", ";", "A", "B", "C", "D", "E", "F", "G", "H", "I", "J",
       "K", "L", "M", "N", "O", "P", "Q", "R", "S", "T", "U", "V", "W", "X",
       "Y", "Z", "_", "a", "b", "c", "d", "e", "f", "g", "h", "i", "j", "k",
       "l", "m", "n", "o", "p", "q", "r", "s", "t", "u", "v", "w", "x", "y",
       "z" >>

Ord(c) == CHOOSE i \in 1..Len(CodeOrder) : CodeOrder[i] = c

LowerLetters ==
    << "a", "b", "c", "d", "e", "f", "g", "h", "i", "j", "k", "l", "m", "n",
       "o", "p", "q", "r", "s", "t", "u", "v", "w", "x", "y", "z" >>

UpperLetters ==
    << "A", "B", "C", "D", "E", "F", "G", "H", "I", "J", "K", "L", "M", "N",
       "O", "P", "Q", "R", "S", "T", "U", "V", "W", "X", "Y", "Z" >>

UpperChar(c) ==
    IF \E i \in 1..26 : LowerLetters[i] = c
    THEN UpperLetters[CHOOSE i \in 1..26 : LowerLetters[i] = c]
    ELSE c

LowerChar(c) ==
    IF \E i \in 1..26 : UpperLetters[i] = c
    THEN LowerLetters[CHOOSE i \in 1..26 : UpperLetters[i] = c]
    ELSE c

\* str.upper() and str.lower()
Upper(s) == [i \in 1..Len(s) |-> UpperChar(s[i])]

Lower(s) == [i \in 1..Len(s) |-> LowerChar(s[i])]

\* Python's "sub in s" for strings
Contains(sub, s) ==
    \E i \in 0..(Len(s) - Len(sub)) : SubSeq(s, i + 1, i + Len(sub)) = sub

\* Python's "x in list"
InList(x, list) == \E i \in 1..Len(list) : list[i] = x

\* Python's a < b for strings
StrLess(a, b) ==
    \E i \in 1..(Len(b)) :
        /\ i <= Len(a) + 1
        /\ SubSeq(a, 1, i - 1) = SubSeq(b, 1, i - 1)
        /\ \/ i = Len(a) + 1
           \/ Ord(a[i]) < Ord(b[i])

RECURSIVE Insert(_, _)
Insert(x, list) ==
    IF list = <<>> THEN <<x>>
    ELSE IF StrLess(x, Head(list)) THEN <<x>> \o list
    ELSE <<Head(list)>> \o Insert(x, Tail(list))

\* Python's sorted(list) for a list of strings
RECURSIVE sorted(_)
sorted(list) ==
    IF list = <<>> THEN <<>>
    ELSE Insert(list[Len(list)], sorted(SubSeq(list, 1, Len(list) - 1)))

\* Python's sep.join(list)
RECURSIVE join(_, _)
join(sep, list) ==
    IF list = <<>> THEN <<>>
    ELSE IF Len(list) = 1 THEN list[1]
    ELSE list[1] \o sep \o join(sep, Tail(list))

\* The elements of a sequence
Range(f) == {f[i] : i \in DOMAIN f}

\* The one element of a one-element set: { e(x) : x \in {v} } gives e its
\* argument as a value
Only(S) == CHOOSE x \in S : TRUE

\* Python's str.strip(), for the one whitespace character of the model
RECURSIVE strip(_)
strip(s) ==
    IF s = <<>> THEN s
    ELSE IF Head(s) = " " THEN strip(Tail(s))
    ELSE IF s[Len(s)] = " " THEN strip(SubSeq(s, 1, Len(s) - 1))
    ELSE s

(***************************************************************************)
(* util.name_clean and util.clean_column_name                              *)
(***************************************************************************)

\* The set of util.py:124-125.  Its backquote is left out: a TLA+ string cannot
\* hold one, and no name of the model contains one.
unallowed_characters ==
    { ";", "(", ")", "=", "+", "'", "\"", ".", "[", "]", ",", "{", "}", "\\",
      "/", "~", "!", "@", "#", "$", "%", "^", "&", "*" }

S_DROP == <<"D", "R", "O", "P">>

name_clean_AcceptAll(name) == TRUE

name_clean(name) ==
    /\ \A i \in 1..Len(name) : name[i] \notin unallowed_characters
    /\ ~Contains(S_DROP, Upper(name))

clean_column_name(col_name) ==
    [i \in 1..Len(col_name) |->
        IF col_name[i] = " " \/ col_name[i] = "/" THEN "_" ELSE col_name[i]]

(***************************************************************************)
(* Type names and util.type_map                                            *)
(***************************************************************************)

S_integer == <<"i", "n", "t", "e", "g", "e", "r">>

S_text == <<"t", "e", "x", "t">>

S_real == <<"r", "e", "a", "l">>

S_double == <<"d", "o", "u", "b", "l", "e">>

S_varchar == <<"v", "a", "r", "c", "h", "a", "r">>

S_datetime == <<"d", "a", "t", "e", "t", "i", "m", "e">>

S_timestamp == <<"t", "i", "m", "e", "s", "t", "a", "m", "p">>

S_date == <<"d", "a", "t", "e">>

S_float == <<"f", "l", "o", "a", "t">>

S_int == <<"i", "n", "t">>

S_str == <<"s", "t", "r">>

S_nonetype == <<"n", "o", "n", "e", "t", "y", "p", "e">>

S_bool == <<"b", "o", "o", "l">>

S_float64 == <<"f", "l", "o", "a", "t", "6", "4">>

S_longchar == <<"l", "o", "n", "g", "c", "h", "a", "r">>

S_smallint == <<"s", "m", "a", "l", "l", "i", "n", "t">>

S_char == <<"c", "h", "a", "r">>

S_time == <<"t", "i", "m", "e">>

S_numpy_float64 == <<"n", "u", "m", "p", "y", ".", "f", "l", "o", "a", "t", "6", "4">> 

S_varchar255 == <<"v", "a", "r", "c", "h", "a", "r", "(", "2", "5", "5", ")">> 

SQL_INTEGER == <<"I", "N", "T", "E", "G", "E", "R">>

SQL_TEXT == <<"T", "E", "X", "T">>

SQL_REAL == <<"R", "E", "A", "L">>

SQL_TIMESTAMP == <<"T", "I", "M", "E", "S", "T", "A", "M", "P">>

SQL_DATE == <<"D", "A", "T", "E">>


\* The Python type objects that are keys of type_map: float, int, str,
\* datetime and None.  One-element sequences, so that no string equals them.
Py_float == <<"class float">>

Py_int == <<"class int">>

Py_str == <<"class str">>

Py_datetime == <<"class datetime">>

Py_None == <<"None">>

\* isinstance(v, str), for a type given to create_table
IsStr(v) == v \notin {Py_float, Py_int, Py_str, Py_datetime, Py_None}

\* util.type_map(db_type), as the set of its <<key, value>> pairs
type_map(db_type) ==
    IF db_type = "ACCESS" THEN
        { <<Py_float, S_double>>, <<S_float, S_double>>,
          <<S_double, S_double>>, <<S_float64, S_double>>,
          <<S_numpy_float64, S_double>>, <<Py_int, S_integer>>,
          <<S_int, S_integer>>, <<S_integer, S_integer>>,
          <<Py_str, S_varchar255>>, <<S_str, S_varchar255>>,
          <<S_text, S_varchar255>>, <<S_varchar, S_varchar255>>,
          <<S_date, S_datetime>>, <<S_datetime, S_datetime>>,
          <<Py_datetime, S_datetime>>, <<S_timestamp, S_datetime>>,
          <<S_smallint, S_integer>>, <<Py_None, S_varchar255>>,
          <<S_nonetype, S_varchar255>> }
    ELSE IF db_type = "SQLITE" THEN
        { <<Py_float, SQL_REAL>>, <<S_float, SQL_REAL>>,
          <<S_double, SQL_REAL>>, <<S_real, SQL_REAL>>,
          <<S_float64, SQL_REAL>>, <<S_numpy_float64, SQL_REAL>>,
          <<Py_int, SQL_INTEGER>>, <<S_int, SQL_INTEGER>>,
          <<S_integer, SQL_INTEGER>>, <<Py_str, SQL_TEXT>>,
          <<S_str, SQL_TEXT>>, <<S_text, SQL_TEXT>>,
          <<S_varchar, SQL_TEXT>>, <<S_date, SQL_DATE>>,
          <<S_datetime, SQL_TIMESTAMP>>, <<Py_datetime, SQL_TIMESTAMP>>,
          <<S_timestamp, SQL_TIMESTAMP>>, <<S_longchar, SQL_TEXT>>,
          <<S_smallint, SQL_INTEGER>>, <<Py_None, SQL_TEXT>>,
          <<S_nonetype, SQL_TEXT>> }
    ELSE {}

\* "key in t_map" and "t_map[key]"
InMap(t_map, key) == \E p \in t_map : p[1] = key

MapGet(t_map, key) == (CHOOSE p \in t_map : p[1] = key)[2]

(***************************************************************************)
(* util.similar_type                                                       *)
(***************************************************************************)

numeric(x) ==
    \/ Contains(S_int, x) \/ Contains(S_double, x)
    \/ Contains(S_float, x) \/ Contains(S_real, x)

text(x) == Contains(S_text, x) \/ Contains(S_str, x) \/ Contains(S_char, x)

time(x) ==
    \/ Contains(S_time, x) \/ Contains(S_date, x)
    \/ Contains(S_real, x) \/ Contains(S_text, x)

similar_type(t1, t2) ==
    LET a == Lower(t1)
        b == Lower(t2)
    IN  \/ a = b
        \/ numeric(a) /\ numeric(b)
        \/ text(a) /\ text(b)
        \/ time(a) /\ time(b)

(***************************************************************************)
(* Python values and rows                                                  *)
(***************************************************************************)

\* A value: ty is the Python type's name; n the number of an int, a float
\* (whole floats only), a bool (0 or 1) or a datetime (a day number); s the
\* text of a str, and <<"n","a","n">> for the float nan.
PyInt(n) == [ty |-> "int", n |-> n, s |-> <<>>]

PyFloat(n) == [ty |-> "float", n |-> n, s |-> <<>>]

S_nan == <<"n", "a", "n">>

PyNaN == [ty |-> "float", n |-> 0, s |-> S_nan]

PyStr(s) == [ty |-> "str", n |-> 0, s |-> s]

PyBool(b) == [ty |-> "bool", n |-> IF b THEN 1 ELSE 0, s |-> <<>>]

PyDatetime(n) == [ty |-> "datetime", n |-> n, s |-> <<>>]

PyNone == [ty |-> "NoneType", n |-> 0, s |-> <<>>]

\* The empty tuple (), a value that no backend can bind to a parameter
PyTuple == [ty |-> "tuple", n |-> 0, s |-> <<>>]

S_tuple == <<"t", "u", "p", "l", "e">>

\* type(value).__name__.lower()
TypeName(v) ==
    CASE v.ty = "int" -> S_int
      [] v.ty = "float" -> S_float
      [] v.ty = "str" -> S_str
      [] v.ty = "bool" -> S_bool
      [] v.ty = "datetime" -> S_datetime
      [] v.ty = "tuple" -> S_tuple
      [] OTHER -> S_nonetype

\* A row is a Python dict: a sequence of <<key, value>> pairs with distinct
\* keys, in insertion order.
Keys(d) == [i \in 1..Len(d) |-> d[i][1]]

Has(d, k) == \E i \in 1..Len(d) : d[i][1] = k

Get(d, k) == d[CHOOSE i \in 1..Len(d) : d[i][1] = k][2]

\* d[k] = v
Put(d, k, v) ==
    IF Has(d, k)
    THEN [i \in 1..Len(d) |-> IF d[i][1] = k THEN <<k, v>> ELSE d[i]]
    ELSE Append(d, <<k, v>>)

\* del d[k]
Del(d, k) == SelectSeq(d, LAMBDA p : p[1] # k)

\* dict(zip(columns, row)): a later pair of the same key replaces the value
RECURSIVE Zip(_, _)
Zip(columns, row) ==
    IF columns = <<>> \/ row = <<>> THEN <<>>
    ELSE LET n == IF Len(columns) < Len(row) THEN Len(columns) ELSE Len(row)
         IN  Put(Zip(SubSeq(columns, 1, n - 1), SubSeq(row, 1, n - 1)),
                 columns[n], row[n])

\* d1 == d2 for two dicts: the same keys with the same values, in any order
DictEq(d1, d2) ==
    /\ Range(Keys(d1)) = Range(Keys(d2))
    /\ \A k \in Range(Keys(d1)) : Get(d1, k) = Get(d2, k)

\* l1 == l2 for two lists of dicts
RowsEq(l1, l2) ==
    /\ Len(l1) = Len(l2)
    /\ \A i \in 1..Len(l1) : DictEq(l1[i], l2[i])

(***************************************************************************)
(* util.clean_data                                                         *)
(***************************************************************************)

Digits == <<"0", "1", "2", "3", "4", "5", "6", "7", "8", "9">>

IsDigits(s) ==
    /\ s # <<>>
    /\ \A i \in 1..Len(s) : \E k \in 1..10 : Digits[k] = s[i]

RECURSIVE DigitsValue(_)
DigitsValue(s) ==
    IF s = <<>> THEN 0
    ELSE 10 * DigitsValue(SubSeq(s, 1, Len(s) - 1))
         + (CHOOSE k \in 1..10 : Digits[k] = s[Len(s)]) - 1

RECURSIVE DigitsOf(_)
DigitsOf(n) ==
    IF n < 10 THEN <<Digits[n + 1]>>
    ELSE DigitsOf(n \div 10) \o <<Digits[(n % 10) + 1]>>

\* float(x): [ok |-> FALSE] stands for ValueError or TypeError.  Of the
\* strings, the digit strings and "nan" are read as Python reads them; the
\* model gives it no other string that Python can read as a number.
to_float(value) ==
    CASE value.ty \in {"int", "bool"} -> [ok |-> TRUE, val |-> PyFloat(value.n)]
      [] value.ty = "float" -> [ok |-> TRUE, val |-> value]
      [] value.ty = "str" ->
            IF IsDigits(value.s)
            THEN [ok |-> TRUE, val |-> PyFloat(DigitsValue(value.s))]
            ELSE IF Lower(value.s) = S_nan THEN [ok |-> TRUE, val |-> PyNaN]
            ELSE [ok |-> FALSE, val |-> PyNone]
      [] OTHER -> [ok |-> FALSE, val |-> PyNone]

\* str(x)
to_str(value) ==
    LET num == IF value.n < 0 THEN <<"-">> \o DigitsOf(0 - value.n)
               ELSE DigitsOf(value.n)
    IN  CASE value.ty = "int" -> PyStr(num)
          [] value.ty = "float" ->
                IF value.s = S_nan THEN PyStr(S_nan)
                ELSE PyStr(num \o <<".", "0">>)
          [] value.ty = "str" -> value
          [] value.ty = "bool" ->
                IF value.n = 1 THEN PyStr(<<"T", "r", "u", "e">>)
                ELSE PyStr(<<"F", "a", "l", "s", "e">>)
          [] value.ty = "datetime" ->
                PyStr(<<"2", "0", "0", "0", "-", "0", "1", "-", "0">>
                      \o DigitsOf(value.n)
                      \o <<" ", "0", "0", ":", "0", "0", ":", "0", "0">>)
          [] value.ty = "tuple" -> PyStr(<<"(", ")">>)
          [] OTHER -> PyStr(<<"N", "o", "n", "e">>)

\* util.py:168-181: fill the missing columns, delete the extra ones
RECURSIVE FillMissing(_, _, _)
FillMissing(d, missing_columns, columns_and_types) ==
    IF missing_columns = <<>> THEN d
    ELSE LET col == Head(missing_columns)
             col_type == Get(columns_and_types, col)
             fill == IF similar_type(col_type, S_float) THEN PyInt(0)
                     ELSE IF similar_type(col_type, S_str) THEN PyStr(<<>>)
                     ELSE PyNone
         IN  FillMissing(Put(d, col, fill), Tail(missing_columns),
                         columns_and_types)

FixColumns_FirstMissing(d, columns_and_types) ==
    LET columns == Keys(columns_and_types)
    IN  IF Len(d) # Len(columns)
        THEN LET missing_columns == SelectSeq(columns, LAMBDA c : ~Has(d, c))
                 filled == IF missing_columns = <<>> THEN d
                           ELSE FillMissing(d, <<Head(missing_columns)>>,
                                            columns_and_types)
             IN  SelectSeq(filled, LAMBDA p : InList(p[1], columns))
        ELSE d

FixColumns(d, columns_and_types) ==
    LET columns == Keys(columns_and_types)
    IN  IF Len(d) # Len(columns)
        THEN LET missing_columns == SelectSeq(columns, LAMBDA c : ~Has(d, c))
                 filled == FillMissing(d, missing_columns, columns_and_types)
             IN  SelectSeq(filled, LAMBDA p : InList(p[1], columns))
        ELSE d

\* util.py:184-210 for one item of a row: the value left in d[col]
FixValue(col_type, value, t_map) ==
    LET d_type == TypeName(value)
        fixed ==
            IF ~similar_type(col_type, MapGet(t_map, d_type))
            THEN IF similar_type(col_type, S_float)
                 THEN LET f == to_float(IF value.ty = "str"
                                        THEN PyStr(strip(value.s))
                                        ELSE value)
                      IN  IF f.ok THEN f.val ELSE PyNone
                 ELSE IF similar_type(col_type, S_str) THEN to_str(value)
                 ELSE PyNone
            ELSE value
    IN  IF fixed.ty = "float" /\ fixed.s = S_nan THEN PyNone ELSE fixed

\* The KeyError of util.py:197: the row has a key that is no column, or the
\* value's type name is no key of the type map
RowRaises(d, columns_and_types, t_map) ==
    \E i \in 1..Len(d) :
        \/ ~Has(columns_and_types, d[i][1])
        \/ ~InMap(t_map, TypeName(d[i][2]))

clean_row(d0, columns_and_types, t_map) ==
    Only({ IF RowRaises(d, columns_and_types, t_map)
           THEN [raised |-> TRUE, row |-> d]
           ELSE [raised |-> FALSE,
                 row |-> [i \in 1..Len(d) |->
                             <<d[i][1],
                               FixValue(Get(columns_and_types, d[i][1]),
                                        d[i][2], t_map)>>]]
           : d \in {FixColumns(d0, columns_and_types)} })

\* util.clean_data: [raised, data]
clean_data(data, columns_and_types, db_type_) ==
    Only({ [raised |-> \E i \in 1..Len(cleaned) : cleaned[i].raised,
            data |-> [i \in 1..Len(cleaned) |-> cleaned[i].row]]
           : cleaned \in
               { Only({ [i \in 1..Len(data) |->
                           clean_row(data[i], columns_and_types, t_map)]
                        : t_map \in {type_map(db_type_)} }) } })

(***************************************************************************)
(* The state of a DataBase handle and of the database behind it            *)
(***************************************************************************)

VARIABLES
    db_type,        \* self.db_type: "SQLITE" or "ACCESS", fixed by __init__
    db,             \* the database file: table name -> [cols, types, keys, rows,
                    \* idx], idx the <<index name, column>> pairs of the table
    _pull_cache,    \* self._pull_cache: key string -> list of row dicts
    cache_owner,    \* for each cache key, the (table, columns) that loaded it
    tn_memo,        \* the lru_cache of table_names: [has, val]
    qn_memo,        \* the lru_cache of query_names: TRUE once it holds a result
    ct_memo,        \* the lru_cache of columns_and_types: table name -> dict
    ap,             \* the frame of an append that is inside its write loop
    lastOp,         \* the last call made through the handle, and how it ended
    ret             \* the list that call returned (pull), else the empty list

vars ==
    << db_type, db, _pull_cache, cache_owner, tn_memo, qn_memo, ct_memo, ap,
       lastOp, ret >>

\* The handle's own state and the database, as one value that the methods
\* below take and give back; sql counts the statements and catalog calls
\* the current call has sent to the backend, and unclosed the connections
\* the call has opened and has not closed.
St ==
    [ db |-> db, cache |-> _pull_cache, owner |-> cache_owner, tn |-> tn_memo,
      qn |-> qn_memo, ct |-> ct_memo, sql |-> 0, unclosed |-> 0 ]

NoMemo == [has |-> FALSE, val |-> <<>>]

\* A function with one more, or one changed, entry; and one with entries removed
With(f, k, v) == [x \in (DOMAIN f) \cup {k} |-> IF x = k THEN v ELSE f[x]]

Without(f, gone) == [x \in (DOMAIN f) \ gone |-> f[x]]

Empty == [x \in {} |-> 0]

\* sorted() of a set of strings
RECURSIVE SortedSet(_)
SortedSet(S) ==
    IF S = {} THEN <<>>
    ELSE LET m == CHOOSE x \in S : \A y \in S \ {x} : StrLess(x, y)
         IN  <<m>> \o SortedSet(S \ {m})

\* DataBase.table_names, under lru_cache(maxsize=1): [st, val].  It
\* returns without closing the connection it opened.
table_names(st) ==
    IF st.tn.has THEN [st |-> st, val |-> st.tn.val]
    ELSE LET tables == SortedSet(DOMAIN st.db)
         IN  [st |-> [st EXCEPT !.tn = [has |-> TRUE, val |-> tables],
                                !.sql = @ + 1, !.unclosed = @ + 1],
              val |-> tables]

\* DataBase.query_names, under lru_cache(maxsize=1): [st, val].  The database
\* of the model holds no Access select queries.
query_names(st) ==
    IF db_type = "ACCESS" /\ ~st.qn
    THEN [st |-> [st EXCEPT !.qn = TRUE, !.sql = @ + 1, !.unclosed = @ + 1],
          val |-> <<>>]
    ELSE [st |-> st, val |-> <<>>]

\* The {column: type} dict the backend reports for a table; {} when there is
\* no such table
SchemaOf(dbase, tablename) ==
    IF tablename \in DOMAIN dbase
    THEN [i \in 1..Len(dbase[tablename].cols) |->
             <<dbase[tablename].cols[i], dbase[tablename].types[i]>>]
    ELSE <<>>

\* DataBase.columns_and_types, under lru_cache(maxsize=64): [st, val]
columns_and_types(st, tablename) ==
    IF tablename \in DOMAIN st.ct
    THEN [st |-> st, val |-> st.ct[tablename]]
    ELSE LET v == SchemaOf(st.db, tablename)
         IN  [st |-> [st EXCEPT !.ct = With(st.ct, tablename, v),
                                !.sql = @ + 1, !.unclosed = @ + 1],
              val |-> v]

\* DataBase.key_columns: the primary key columns the backend reports
key_columns(st, tablename) ==
    IF tablename \in DOMAIN st.db THEN st.db[tablename].keys ELSE <<>>

\* DataBase._clear_pull_cache
_clear_pull_cache_ExactKey(st, tablename) ==
    LET gone == {key \in DOMAIN st.cache : key = tablename}
    IN  [st EXCEPT !.cache = Without(st.cache, gone),
                   !.owner = Without(st.owner, gone)]

_clear_pull_cache(st, tablename) ==
    LET gone == {key \in DOMAIN st.cache : Contains(tablename, key)}
    IN  [st EXCEPT !.cache = Without(st.cache, gone),
                   !.owner = Without(st.owner, gone)]

\* The columns argument of pull: 'all', or a list of column names
AllColumns == [all |-> TRUE, names |-> <<>>]

Cols(names) == [all |-> FALSE, names |-> names]

S_all == <<"a", "l", "l">>

\* list(columns): of the string 'all', its three characters
ListOf(columns) ==
    IF columns.all THEN <<<<"a">>, <<"l">>, <<"l">>>> ELSE columns.names

\* database.py:222-225
requested_data_key(tablename, columns) ==
    IF columns.all THEN tablename
    ELSE tablename \o <<"_">> \o join(<<"_">>, sorted(columns.names))

\* The rows a SELECT of these columns gives, as util.list_of_dicts_from_query
\* returns them: the empty list when the statement fails (no such table, no
\* column listed, or a column the table does not have)
list_of_dicts_from_query(dbase, tablename, columns) ==
    LET t == dbase[tablename]
        pos(c) == CHOOSE i \in 1..Len(t.cols) : t.cols[i] = c
    IN  IF tablename \notin DOMAIN dbase THEN <<>>
        ELSE IF columns.all
        THEN [r \in 1..Len(t.rows) |-> Zip(t.cols, t.rows[r])]
        ELSE IF columns.names = <<>>
                \/ \E i \in 1..Len(columns.names) :
                       ~InList(columns.names[i], t.cols)
        THEN <<>>
        ELSE [r \in 1..Len(t.rows) |->
                 Zip(columns.names,
                     [i \in 1..Len(columns.names) |->
                         t.rows[r][pos(columns.names[i])]])]

\* DataBase.pull: [st, val]
pull(st, tablename, columns, fresh) ==
    Only({
      IF requested_data_key_ \in DOMAIN st1.cache
      THEN [st |-> st1, val |-> st1.cache[requested_data_key_]]
      ELSE IF \E i \in 1..Len(names) : ~name_clean(names[i])
      THEN [st |-> st1, val |-> <<>>]
      ELSE Only({
        Only({
          IF ~InList(tablename, tn.val \o qn.val)
          THEN [st |-> qn.st, val |-> <<>>]
          ELSE Only({
            [st |-> [qn.st EXCEPT
                       !.cache = With(@, requested_data_key_, result),
                       !.owner = With(@, requested_data_key_,
                                      [table |-> tablename,
                                       columns |-> columns]),
                       !.sql = @ + 1],
             val |-> result]
            : result \in
                {list_of_dicts_from_query(qn.st.db, tablename, columns)} })
          : qn \in {query_names(tn.st)} })
        : tn \in {table_names(st1)} })
      : st1 \in {IF fresh THEN _clear_pull_cache(st, tablename) ELSE st},
        requested_data_key_ \in {requested_data_key(tablename, columns)},
        names \in {<<tablename>> \o ListOf(columns)} })

(***************************************************************************)
(* DataBase.create_table and DataBase.drop_table                           *)
(***************************************************************************)

\* Whether the backend's parser takes the name unquoted, as the Access
\* statements and the UPDATE, ALTER and DELETE statements write it
SqlIdentOk(name) ==
    /\ name # <<>>
    /\ \A i \in 1..Len(name) :
           \/ name[i] = "_"
           \/ \E k \in 1..26 : name[i] \in {LowerLetters[k], UpperLetters[k]}
           \/ \E k \in 1..10 : name[i] = Digits[k]

\* The type name the backend reports for a declared column type
\* (PRAGMA TABLE_INFO and cursor.columns), lower-cased as columns_and_types
\* does
ReportedType(sql_type) ==
    IF sql_type = S_varchar255 THEN S_varchar ELSE Lower(sql_type)

\* DataBase.drop_table: [st, raised]
drop_table(st, tablename) ==
    Only({
      LET dropped ==
              [tn.st EXCEPT !.db = Without(@, {tablename}), !.sql = @ + 1]
          cleared ==
              [_clear_pull_cache(dropped, tablename) EXCEPT
                  !.tn = NoMemo, !.ct = Empty]
      IN  IF ~InList(tablename, tn.val) THEN [st |-> tn.st, raised |-> FALSE]
          ELSE IF db_type = "SQLITE" THEN [st |-> cleared, raised |-> FALSE]
          ELSE IF db_type = "ACCESS"
          THEN IF SqlIdentOk(tablename) /\ tablename \in DOMAIN tn.st.db
               THEN [st |-> cleared, raised |-> FALSE]
               ELSE [st |-> [tn.st EXCEPT !.sql = @ + 1], raised |-> TRUE]
          ELSE [st |-> tn.st, raised |-> FALSE]
      : tn \in {table_names(st)} })

\* database.py:403: the dict with cleaned column names and lower-cased types
RECURSIVE CleanedTypes(_)
CleanedTypes(cat) ==
    IF cat = <<>> THEN <<>>
    ELSE LET last == cat[Len(cat)]
         IN  Put(CleanedTypes(SubSeq(cat, 1, Len(cat) - 1)),
                 clean_column_name(last[1]),
                 IF IsStr(last[2]) THEN Lower(last[2]) ELSE last[2])

\* Whether the backend executes the CREATE TABLE statement of
\* database.py:413-416
CreateSucceeds(dbase, tablename, cat) ==
    /\ tablename \notin DOMAIN dbase
    /\ cat # <<>>
    /\ db_type = "ACCESS" => SqlIdentOk(tablename)
    /\ \A i \in 1..Len(tablename) : tablename[i] # "'"

create_table_DropFirst(st, tablename, columns_and_types_, force_overwrite) ==
    Only({
      IF t_map = {} THEN [st |-> st, raised |-> FALSE]
      ELSE Only({
        IF InList(tablename, tn.val) /\ ~force_overwrite
        THEN [st |-> tn.st, raised |-> FALSE]
        ELSE Only({
          IF dr.raised THEN dr
          ELSE IF \E i \in 1..Len(cat) : ~InMap(t_map, cat[i][2])
          THEN [st |-> dr.st, raised |-> FALSE]
          ELSE IF CreateSucceeds(dr.st.db, tablename, cat)
          THEN [st |-> [dr.st EXCEPT
                          !.db = With(@, tablename,
                              [cols |-> Keys(cat),
                               types |-> [i \in 1..Len(cat) |->
                                   ReportedType(MapGet(t_map, cat[i][2]))],
                               keys |-> <<>>,
                               rows |-> <<>>,
                               idx |-> {}]),
                          !.tn = NoMemo, !.ct = Empty, !.sql = @ + 1],
                raised |-> FALSE]
          ELSE [st |-> [dr.st EXCEPT
                          !.sql = @ + 1,
                          !.unclosed = IF db_type = "ACCESS" THEN @ + 1 ELSE @],
                raised |-> TRUE]
          : dr \in {IF InList(tablename, tn.val)
                    THEN drop_table(tn.st, tablename)
                    ELSE [st |-> tn.st, raised |-> FALSE]} })
        : tn \in {table_names(st)} })
      : t_map \in {type_map(db_type)},
        cat \in {CleanedTypes(columns_and_types_)} })

\* DataBase.create_table: [st, raised].  A statement that fails raises: on
\* Access pyodbc's error is not caught and leaves before conn.close(), and
\* on SQLite print(error) at database.py:441, after conn.close(), reads a
\* name that the except clause has unbound.
create_table(st, tablename, columns_and_types_, force_overwrite) ==
    Only({
      IF t_map = {} THEN [st |-> st, raised |-> FALSE]
      ELSE IF \E i \in 1..Len(cat) : ~InMap(t_map, cat[i][2])
      THEN [st |-> st, raised |-> FALSE]
      ELSE Only({
        IF InList(tablename, tn.val) /\ ~force_overwrite
        THEN [st |-> tn.st, raised |-> FALSE]
        ELSE Only({
          IF dr.raised THEN dr
          ELSE IF CreateSucceeds(dr.st.db, tablename, cat)
          THEN [st |-> [dr.st EXCEPT
                          !.db = With(@, tablename,
                              [cols |-> Keys(cat),
                               types |-> [i \in 1..Len(cat) |->
                                   ReportedType(MapGet(t_map, cat[i][2]))],
                               keys |-> <<>>,
                               rows |-> <<>>,
                               idx |-> {}]),
                          !.tn = NoMemo, !.ct = Empty, !.sql = @ + 1],
                raised |-> FALSE]
          ELSE [st |-> [dr.st EXCEPT
                          !.sql = @ + 1,
                          !.unclosed = IF db_type = "ACCESS" THEN @ + 1 ELSE @],
                raised |-> TRUE]
          : dr \in {IF InList(tablename, tn.val)
                    THEN drop_table(tn.st, tablename)
                    ELSE [st |-> tn.st, raised |-> FALSE]} })
        : tn \in {table_names(st)} })
      : t_map \in {type_map(db_type)},
        cat \in {CleanedTypes(columns_and_types_)} })

(***************************************************************************)
(* DataBase.append, up to its write loop (database.py:479-554)             *)
(***************************************************************************)

\* tuple(d[key] for key in keys)
KeyTuple(d, keys) == [i \in 1..Len(keys) |-> Get(d, keys[i])]

\* DataBase._check_potential_duplicates: [st, raised, dups].  It raises
\* KeyError when a row of data has no value for a key column.
_check_potential_duplicates(st, tablename, data) ==
    Only({
      IF keys = <<>>
      THEN [st |-> [st EXCEPT !.sql = @ + 1], raised |-> FALSE, dups |-> {}]
      ELSE Only({
        IF \E i \in 1..Len(data) :
               \E k \in 1..Len(keys) : ~Has(data[i], keys[k])
        THEN [st |-> pl.st, raised |-> TRUE, dups |-> {}]
        ELSE [st |-> pl.st, raised |-> FALSE,
              dups |-> {KeyTuple(data[i], keys) : i \in 1..Len(data)}
                       \cap {KeyTuple(pl.val[i], keys) : i \in 1..Len(pl.val)}]
        : pl \in {pull([st EXCEPT !.sql = @ + 1], tablename, Cols(keys),
                       TRUE)} })
      : keys \in {key_columns(st, tablename)} })

\* What append has done when it reaches its loop or returns before it
AppendOut(st, outcome, data, columns, skipped) ==
    [st |-> st, outcome |-> outcome, data |-> data, columns |-> columns,
     skipped |-> skipped]

\* database.py:522-534: the rows that are left when the rows with a key of
\* the table are taken out
append_dedupe(st, tablename, data, columns, dedupe) ==
    Only({
      IF ck.raised THEN AppendOut(ck.st, "raise", <<>>, columns, 0)
      ELSE Only({
        IF non_dup_data = <<>>
        THEN AppendOut(st5, "return", <<>>, columns, Len(data))
        ELSE AppendOut(st5, "loop", non_dup_data, columns,
                       Len(data) - Len(non_dup_data))
        : st5 \in {IF dedupe THEN [ck.st EXCEPT !.sql = @ + 1] ELSE ck.st},
          non_dup_data \in
            {IF ck.dups # {}
             THEN SelectSeq(data,
                      LAMBDA d : KeyTuple(d, key_columns(ck.st, tablename))
                                     \notin ck.dups)
             ELSE data} })
      : ck \in {IF dedupe
                THEN _check_potential_duplicates(st, tablename, data)
                ELSE [st |-> st, raised |-> FALSE, dups |-> {}]} })

\* database.py:503-514: the cleaned rows, put in the order of the table's
\* columns
append_columns(st, tablename, data, robust) ==
    Only({
      Only({
        IF cd.raised THEN AppendOut(ct.st, "raise", <<>>, columns, 0)
        ELSE IF Keys(cd.data[1]) # columns
        THEN IF \E i \in 1..Len(cd.data) :
                    \E j \in 1..Len(columns) : ~Has(cd.data[i], columns[j])
             THEN AppendOut(ct.st, "return", <<>>, columns, 0)
             ELSE Only({
                    append_dedupe(ct.st, tablename, data2, columns,
                                  db_type = "ACCESS" /\ robust)
                    : data2 \in
                        {[i \in 1..Len(cd.data) |->
                             [j \in 1..Len(columns) |->
                                 <<columns[j],
                                   Get(cd.data[i], columns[j])>>]]} })
        ELSE append_dedupe(ct.st, tablename, cd.data, columns,
                           db_type = "ACCESS" /\ robust)
        : cd \in {IF robust THEN clean_data(data, ct.val, db_type)
                  ELSE [raised |-> FALSE, data |-> data]},
          columns \in {Keys(ct.val)} })
      : ct \in {columns_and_types(st, tablename)} })

\* database.py:479-554 of DataBase.append, with clean_column_names=False:
\* [st, outcome, data, columns, skipped].  outcome is "return" when append
\* returns before its loop, "raise" when it raises, "loop" when it enters
\* the loop with these rows and columns.
append_begin(st, tablename, data, create_table_if_needed, robust) ==
    IF data = <<>> THEN AppendOut(st, "return", <<>>, <<>>, 0)
    ELSE Only({
      IF ~InList(tablename, tn.val) /\ ~create_table_if_needed
      THEN AppendOut(tn.st, "return", <<>>, <<>>, 0)
      ELSE Only({
        IF cr.raised THEN AppendOut(cr.st, "raise", <<>>, <<>>, 0)
        ELSE append_columns(cr.st, tablename, data, robust)
        : cr \in {IF ~InList(tablename, tn.val)
                  THEN create_table(tn.st, tablename,
                           [i \in 1..Len(data[1]) |->
                               <<data[1][i][1], TypeName(data[1][i][2])>>],
                           FALSE)
                  ELSE [st |-> tn.st, raised |-> FALSE]} })
      : tn \in {table_names(st)} })

(***************************************************************************)
(* DataBase.update, add_column, drop_column and delete_duplicates          *)
(***************************************************************************)

\* The position of a column in a table
Pos(cols, c) == CHOOSE i \in 1..Len(cols) : cols[i] = c

\* A match_val or update_val argument: one value, or a list of values
One(v) == [list |-> FALSE, vals |-> <<v>>]

Many(vals) == [list |-> TRUE, vals |-> vals]

\* One UPDATE ... SET [update_col]=? WHERE [match_col]=? statement; a NULL
\* parameter matches no row
UpdateRows(table, match_col, m_val, update_col, u_val) ==
    [r \in 1..Len(table.rows) |->
        IF m_val # PyNone /\ table.rows[r][Pos(table.cols, match_col)] = m_val
        THEN [table.rows[r] EXCEPT ![Pos(table.cols, update_col)] = u_val]
        ELSE table.rows[r]]

RECURSIVE UpdateAll(_, _, _, _)
UpdateAll(table, match_col, update_col, pairs) ==
    IF pairs = <<>> THEN table
    ELSE UpdateAll([table EXCEPT !.rows =
                        UpdateRows(table, match_col, pairs[1][1], update_col,
                                   pairs[1][2])],
                   match_col, update_col, Tail(pairs))

\* Whether no two rows of the table have the same primary key and no key
\* value is NULL
KeysOk(table) ==
    \E t \in {table} :
        \/ t.keys = <<>>
        \/ \E tups \in
               {[r \in 1..Len(t.rows) |->
                    [k \in 1..Len(t.keys) |->
                        t.rows[r][Pos(t.cols, t.keys[k])]]]} :
               /\ Cardinality(Range(tups)) = Len(tups)
               /\ \A r \in 1..Len(tups) :
                      \A k \in 1..Len(t.keys) : tups[r][k] # PyNone

\* DataBase.update: [st, raised].  It opens its connection at
\* database.py:626 and no path closes it.
update(st, tablename, match_col, match_val, update_col, update_val) ==
    Only({
      IF ~Has(ct.val, match_col) \/ ~Has(ct.val, update_col)
      THEN [st |-> ct.st, raised |-> FALSE]
      ELSE IF match_val.list /\ update_val.list
              /\ Len(match_val.vals) # Len(update_val.vals)
      THEN [st |-> [ct.st EXCEPT !.unclosed = @ + 1], raised |-> FALSE]
      ELSE IF \/ ~match_val.list /\ update_val.list
              \/ ~SqlIdentOk(tablename)
              \/ tablename \notin DOMAIN ct.st.db
      THEN [st |-> [ct.st EXCEPT !.sql = @ + 1, !.unclosed = @ + 1],
            raised |-> TRUE]
      ELSE Only({
        IF ~KeysOk(updated)
        THEN [st |-> [ct.st EXCEPT !.sql = @ + 1, !.unclosed = @ + 1],
              raised |-> TRUE]
        ELSE [st |-> _clear_pull_cache(
                         [ct.st EXCEPT !.db = With(@, tablename, updated),
                                       !.sql = @ + Len(match_val.vals),
                                       !.unclosed = @ + 1],
                         tablename),
              raised |-> FALSE]
        : updated \in
            {UpdateAll(ct.st.db[tablename], match_col, update_col,
                 [i \in 1..Len(match_val.vals) |->
                     <<match_val.vals[i],
                       IF update_val.list THEN update_val.vals[i]
                       ELSE update_val.vals[1]>>])} })
      : ct \in {columns_and_types(st, tablename)} })

add_column_KeepSchemas(st, tablename, new_col, new_type) ==
    Only({
      IF Has(ct.val, new_col) THEN [st |-> ct.st, raised |-> FALSE]
      ELSE IF \/ tablename \notin DOMAIN ct.st.db
              \/ ~SqlIdentOk(tablename)
              \/ ~SqlIdentOk(new_col)
      THEN [st |-> [ct.st EXCEPT !.sql = @ + 1], raised |-> TRUE]
      ELSE LET sql_type ==
                   IF new_type = S_str
                   THEN IF db_type = "ACCESS" THEN S_varchar255 ELSE SQL_TEXT
                   ELSE new_type
               t == ct.st.db[tablename]
               altered ==
                   [t EXCEPT !.cols = Append(@, new_col),
                             !.types = Append(@, ReportedType(sql_type)),
                             !.rows = [r \in 1..Len(t.rows) |->
                                          Append(t.rows[r], PyNone)]]
           IN  [st |-> _clear_pull_cache(
                           [ct.st EXCEPT !.db = With(@, tablename, altered),
                                         !.sql = @ + 1],
                           tablename),
                raised |-> FALSE]
      : ct \in {columns_and_types(st, tablename)} })

\* DataBase.add_column: [st, raised]
add_column(st, tablename, new_col, new_type) ==
    Only({
      IF Has(ct.val, new_col) THEN [st |-> ct.st, raised |-> FALSE]
      ELSE IF \/ tablename \notin DOMAIN ct.st.db
              \/ ~SqlIdentOk(tablename)
              \/ ~SqlIdentOk(new_col)
      THEN [st |-> [ct.st EXCEPT !.sql = @ + 1], raised |-> TRUE]
      ELSE LET sql_type ==
                   IF new_type = S_str
                   THEN IF db_type = "ACCESS" THEN S_varchar255 ELSE SQL_TEXT
                   ELSE new_type
               t == ct.st.db[tablename]
               altered ==
                   [t EXCEPT !.cols = Append(@, new_col),
                             !.types = Append(@, ReportedType(sql_type)),
                             !.rows = [r \in 1..Len(t.rows) |->
                                          Append(t.rows[r], PyNone)]]
           IN  [st |-> [_clear_pull_cache(
                            [ct.st EXCEPT !.db = With(@, tablename, altered),
                                          !.sql = @ + 1],
                            tablename)
                        EXCEPT !.ct = Empty],
                raised |-> FALSE]
      : ct \in {columns_and_types(st, tablename)} })

\* A sequence without its i-th element
RemoveAt(seq, i) == SubSeq(seq, 1, i - 1) \o SubSeq(seq, i + 1, Len(seq))

\* DataBase.drop_column: [st, raised].  The backend refuses to drop a key
\* column, a column an index is on, or the only column of a table.
drop_column(st, tablename, column) ==
    Only({
      IF ~Has(ct.val, column) THEN [st |-> ct.st, raised |-> FALSE]
      ELSE IF \/ tablename \notin DOMAIN ct.st.db
              \/ ~SqlIdentOk(tablename)
              \/ ~InList(column, ct.st.db[tablename].cols)
              \/ InList(column, ct.st.db[tablename].keys)
              \/ \E i \in ct.st.db[tablename].idx : i[2] = column
              \/ Len(ct.st.db[tablename].cols) = 1
      THEN [st |-> [ct.st EXCEPT !.sql = @ + 1], raised |-> TRUE]
      ELSE LET t == ct.st.db[tablename]
               i == Pos(t.cols, column)
               altered ==
                   [t EXCEPT !.cols = RemoveAt(@, i),
                             !.types = RemoveAt(@, i),
                             !.rows = [r \in 1..Len(t.rows) |->
                                          RemoveAt(t.rows[r], i)]]
           IN  [st |-> [_clear_pull_cache(
                            [ct.st EXCEPT !.db = With(@, tablename, altered),
                                          !.sql = @ + 1],
                            tablename)
                        EXCEPT !.ct = Empty],
                raised |-> FALSE]
      : ct \in {columns_and_types(st, tablename)} })

\* The grouping_columns argument of delete_duplicates: None, or a list
NoGrouping == [none |-> TRUE, names |-> <<>>]

Grouping(names) == [none |-> FALSE, names |-> names]

\* The rows that DELETE ... WHERE rowid NOT IN (SELECT max(rowid) ... GROUP
\* BY grouping_columns) leaves: of each group, the row inserted last
KeepMaxRowid(table, grouping_columns) ==
    LET tup(r) == [k \in 1..Len(grouping_columns) |->
                      table.rows[r][Pos(table.cols, grouping_columns[k])]]
    IN  Only({ [i \in 1..Len(kept) |-> table.rows[kept[i]]]
               : kept \in
                   {SelectSeq([r \in 1..Len(table.rows) |-> r],
                        LAMBDA r : \A r2 \in 1..Len(table.rows) :
                                       tup(r2) = tup(r) => r2 <= r)} })

\* database.py:715-721: walking the rows last to first, keep the first row
\* seen of each group; new_data, in the order the walk found it
RECURSIVE CollapseReversed(_, _, _)
CollapseReversed(data, grouping_columns, existing_combos) ==
    IF data = <<>> THEN <<>>
    ELSE Only({
           IF row_combo \notin existing_combos
           THEN <<data[Len(data)]>>
                    \o CollapseReversed(rest, grouping_columns,
                                        existing_combos \cup {row_combo})
           ELSE CollapseReversed(rest, grouping_columns, existing_combos)
           : rest \in {SubSeq(data, 1, Len(data) - 1)},
             row_combo \in {KeyTuple(data[Len(data)], grouping_columns)} })

\* list(reversed(list))
Reversed(list) == [i \in 1..Len(list) |-> list[Len(list) + 1 - i]]

\* DataBase.delete_duplicates, up to the write loop of the append it calls
\* on Access: [st, outcome, data, columns, skipped], as append_begin gives
delete_duplicates(st, tablename, grouping_columns) ==
    Only({
      Only({
        IF db_type = "SQLITE"
        THEN IF \/ ~SqlIdentOk(tablename)
                \/ tablename \notin DOMAIN ct.st.db
                \/ gc = <<>>
                \/ \E i \in 1..Len(gc) :
                       ~InList(gc[i], ct.st.db[tablename].cols)
             THEN AppendOut([ct.st EXCEPT !.sql = @ + 1], "raise", <<>>,
                            <<>>, 0)
             ELSE AppendOut(
                      _clear_pull_cache(
                          [ct.st EXCEPT
                              !.db = With(@, tablename,
                                  [ct.st.db[tablename] EXCEPT
                                      !.rows = KeepMaxRowid(
                                          ct.st.db[tablename], gc)]),
                              !.sql = @ + 1],
                          tablename),
                      "return", <<>>, <<>>, 0)
        ELSE IF db_type = "ACCESS"
        THEN Only({
          IF \E i \in 1..Len(pl.val) :
                 \E k \in 1..Len(gc) : ~Has(pl.val[i], gc[k])
          THEN AppendOut(pl.st, "raise", <<>>, <<>>, 0)
          ELSE IF ~SqlIdentOk(tablename) \/ tablename \notin DOMAIN pl.st.db
          THEN AppendOut([pl.st EXCEPT !.sql = @ + 1], "raise", <<>>, <<>>, 0)
          ELSE Only({
            IF ab.outcome = "return"
            THEN AppendOut(_clear_pull_cache(ab.st, tablename), "return",
                           <<>>, <<>>, 0)
            ELSE ab
            : ab \in
                {append_begin(
                     [pl.st EXCEPT
                         !.db = With(@, tablename,
                             [pl.st.db[tablename] EXCEPT !.rows = <<>>]),
                         !.sql = @ + 1],
                     tablename,
                     Reversed(CollapseReversed(pl.val, gc, {})),
                     TRUE, FALSE)} })
          : pl \in {pull(ct.st, tablename, AllColumns, FALSE)} })
        ELSE AppendOut(st, "return", <<>>, <<>>, 0)
        : gc \in {IF grouping_columns.none THEN sorted(Keys(ct.val))
                  ELSE grouping_columns.names} })
      : ct \in {IF grouping_columns.none
                THEN columns_and_types(st, tablename)
                ELSE [st |-> st, val |-> <<>>]} })

(***************************************************************************)
(* The write loop of DataBase.append (database.py:550-593)                 *)
(***************************************************************************)

\* The rows of one batched insert: data[-100:] and data[:-100]
ChunkSize == 100

\* The retries of database.py:581
MaxRetries == 5

LastChunk_HalfChunk(data) ==
    SubSeq(data,
           IF Len(data) > ChunkSize \div 2
           THEN Len(data) - ChunkSize \div 2 + 1 ELSE 1,
           Len(data))

LastChunk(data) ==
    SubSeq(data, IF Len(data) > ChunkSize THEN Len(data) - ChunkSize + 1 ELSE 1,
           Len(data))

WithoutLastChunk(data) ==
    SubSeq(data, 1, IF Len(data) > ChunkSize THEN Len(data) - ChunkSize ELSE 0)

\* The frame of an append inside its loop.  caller is "append" or
\* "delete_duplicates"; pending holds the rows executed on the connection
\* and not yet committed; calls logs the insert calls that completed, each
\* with the rows given to it.
IdleFrame ==
    [ active |-> FALSE, caller |-> "", tablename |-> <<>>, data |-> <<>>,
      columns |-> <<>>, safe |-> FALSE, original_data_len |-> 0,
      retry_attempts |-> 0, broke |-> FALSE, pending |-> <<>>,
      calls |-> <<>> ]

\* The table as a one-element list, or the empty list when there is none
TableOrNone(dbase, tablename) ==
    IF tablename \in DOMAIN dbase THEN <<dbase[tablename]>> ELSE <<>>

RowCount(dbase, tablename) ==
    IF tablename \in DOMAIN dbase THEN Len(dbase[tablename].rows) ELSE 0

\* tuple(row_dict[col] for col in columns)
RowTuple(row_dict, columns) ==
    [j \in 1..Len(columns) |-> Get(row_dict, columns[j])]

\* A row of the chunk has no value for a column (KeyError)
ChunkKeyError(f) ==
    \E chunk \in {LastChunk(f.data)} :
        \E i \in 1..Len(chunk) :
            \E j \in 1..Len(f.columns) : ~Has(chunk[i], f.columns[j])

\* The rows of a chunk, as the tuples given to the backend
ChunkTuples(f) ==
    Only({ [i \in 1..Len(chunk) |-> RowTuple(chunk[i], f.columns)]
           : chunk \in {LastChunk(f.data)} })

\* A value of the row is of a type the backend cannot bind to a parameter
RowUnsupported(tuple) == \E j \in 1..Len(tuple) : tuple[j].ty = "tuple"

ChunkUnsupported(f) ==
    \E tups \in {ChunkTuples(f)} :
        \E i \in 1..Len(tups) : RowUnsupported(tups[i])

\* The statement cannot be executed at all: there is no such table, or no
\* column to insert into, or with safe=True a value was written into its
\* text that is no SQL value
InsertIsBadSql(dbase, f) ==
    \/ f.tablename \notin DOMAIN dbase
    \/ f.columns = <<>>
    \/ \E j \in 1..Len(f.columns) :
           ~InList(f.columns[j], dbase[f.tablename].cols)
    \/ db_type = "ACCESS" /\ ~SqlIdentOk(f.tablename)
    \/ \E i \in 1..Len(f.tablename) : f.tablename[i] = "'"
    \/ f.safe /\ ~ChunkKeyError(f) /\ ChunkUnsupported(f)

\* The row the table stores for a tuple inserted into these columns: NULL
\* in every column the statement does not name
StoredRow(table, columns, tuple) ==
    [c \in 1..Len(table.cols) |->
        IF InList(table.cols[c], columns)
        THEN tuple[Pos(columns, table.cols[c])]
        ELSE PyNone]

StoredRows(table, columns, tuples) ==
    Only({ [i \in 1..Len(tups) |-> StoredRow(t, columns, tups[i])]
           : t \in {table}, tups \in {tuples} })

\* The backend refuses a row of the chunk: a primary key that a row of the
\* table, or a row inserted before it, already has, or a NULL in it
ChunkViolatesKey(dbase, f) ==
    LET t == dbase[f.tablename]
    IN  ~KeysOk([t EXCEPT !.rows = @ \o f.pending
                              \o StoredRows(t, f.columns, ChunkTuples(f))])

\* The place in the chunk of the first row the backend refuses: a row with
\* a value it cannot bind, or with a key it cannot store
FirstOffending(dbase, f) ==
    Only({ CHOOSE i \in 1..Len(tups) :
               /\ bad[i]
               /\ \A j \in 1..(i - 1) : ~bad[j]
           : tups \in {ChunkTuples(f)},
             bad \in
               {Only({ [i \in 1..Len(tups1) |->
                          \/ RowUnsupported(tups1[i])
                          \/ ~KeysOk([t EXCEPT !.rows =
                                 @ \o f.pending
                                   \o StoredRows(t, f.columns,
                                                 SubSeq(tups1, 1, i))])]
                       : tups1 \in {ChunkTuples(f)},
                         t \in {dbase[f.tablename]} })} })

\* The exceptions with which the backend refuses a row: for a key, the
\* IntegrityError of its module; for a value it cannot bind, on SQLite
\* InterfaceError or ProgrammingError as the version of sqlite3 has it, and
\* on Access ProgrammingError
Faults(tuple) ==
    IF RowUnsupported(tuple)
    THEN IF db_type = "SQLITE"
         THEN {"sqlite3.InterfaceError", "sqlite3.ProgrammingError"}
         ELSE {"pyodbc.ProgrammingError"}
    ELSE IF db_type = "SQLITE" THEN {"sqlite3.IntegrityError"}
    ELSE {"pyodbc.IntegrityError"}

\* The exceptions that the except clauses of database.py:563 and 570 catch
Caught == {"pyodbc.IntegrityError", "sqlite3.InterfaceError"}

\* The insert calls of one pass over a chunk: one executemany with the whole
\* chunk, or with safe=True one execute for each row
ChunkCalls(f) ==
    Only({ IF f.safe
           THEN [i \in 1..Len(tups) |-> [many |-> FALSE, rows |-> <<tups[i]>>]]
           ELSE <<[many |-> TRUE, rows |-> tups]>>
           : tups \in {ChunkTuples(f)} })

(***************************************************************************)
(* The calls made through the handle                                       *)
(***************************************************************************)

\* The model follows the handle through this many calls
MaxCalls == 3

\* What lastOp records of a call; n numbers the calls
OpRecord(name, tablename, n) ==
    [ op |-> name, table |-> tablename, n |-> n, columns |-> AllColumns,
      fresh |-> FALSE, done |-> TRUE, raised |-> FALSE, sql |-> 0,
      loop |-> FALSE, safe |-> FALSE, robust |-> FALSE, submitted |-> 0,
      skipped |-> 0, before |-> 0, reported |-> 0, committed |-> 0,
      calls |-> <<>>, locked |-> 0, broke |-> FALSE, orig |-> <<>>,
      keys0 |-> {}, given |-> <<>>, tn0 |-> FALSE, ct0 |-> {},
      unclosed |-> 0, uncommitted |-> 0, fault |-> "", error |-> "",
      retried |-> FALSE, heading |-> FALSE, offending |-> <<>>,
      shown |-> <<>>, failed |-> 0 ]

\* The record of a call that begins now: orig is the table and keys0 the
\* keys of the pull cache as the call finds them; tn0 and ct0 tell which
\* results table_names and columns_and_types had memoized; given is the
\* list of rows an append is called with
Op(name, tablename) ==
    [OpRecord(name, tablename, lastOp.n + 1) EXCEPT
        !.orig = TableOrNone(db, tablename),
        !.keys0 = DOMAIN _pull_cache,
        !.tn0 = tn_memo.has,
        !.ct0 = DOMAIN ct_memo]

\* No call is running, and the model follows one more
CanCall == ~ap.active /\ lastOp.n < MaxCalls

\* The handle and the database take the values a method left them with
Install(st) ==
    /\ db' = st.db
    /\ _pull_cache' = st.cache
    /\ cache_owner' = st.owner
    /\ tn_memo' = st.tn
    /\ qn_memo' = st.qn
    /\ ct_memo' = st.ct

Pull(tablename, columns, fresh) ==
    /\ CanCall
    /\ \E r \in {pull(St, tablename, columns, fresh)} :
           /\ Install(r.st)
           /\ ret' = r.val
           /\ lastOp' = [Op("pull", tablename) EXCEPT
                            !.columns = columns, !.fresh = fresh,
                            !.sql = r.st.sql, !.unclosed = r.st.unclosed]
    /\ UNCHANGED <<db_type, ap>>

TableNames ==
    /\ CanCall
    /\ \E r \in {table_names(St)} :
           /\ Install(r.st)
           /\ ret' = r.val
           /\ lastOp' = [Op("table_names", <<>>) EXCEPT
                            !.sql = r.st.sql, !.unclosed = r.st.unclosed]
    /\ UNCHANGED <<db_type, ap>>

\* A method that gives [st, raised] has been called on the table
Returned(name, tablename, r) ==
    /\ Install(r.st)
    /\ ret' = <<>>
    /\ lastOp' = [Op(name, tablename) EXCEPT
                     !.raised = r.raised, !.sql = r.st.sql,
                     !.unclosed = r.st.unclosed]
    /\ UNCHANGED <<db_type, ap>>

CreateTable(tablename, columns_and_types_, force_overwrite) ==
    /\ CanCall
    /\ \E r \in {create_table(St, tablename, columns_and_types_,
                              force_overwrite)} :
           /\ Install(r.st)
           /\ ret' = <<>>
           /\ lastOp' = [Op("create_table", tablename) EXCEPT
                            !.raised = r.raised, !.sql = r.st.sql,
                            !.unclosed = r.st.unclosed,
                            !.given = <<columns_and_types_, force_overwrite>>]
    /\ UNCHANGED <<db_type, ap>>

DropTable(tablename) ==
    /\ CanCall
    /\ \E r \in {drop_table(St, tablename)} :
           Returned("drop_table", tablename, r)

Update(tablename, match_col, match_val, update_col, update_val) ==
    /\ CanCall
    /\ \E r \in {update(St, tablename, match_col, match_val, update_col,
                        update_val)} :
           /\ Install(r.st)
           /\ ret' = <<>>
           /\ lastOp' = [Op("update", tablename) EXCEPT
                            !.raised = r.raised, !.sql = r.st.sql,
                            !.unclosed = r.st.unclosed,
                            !.given = <<match_col, match_val, update_col,
                                        update_val>>]
    /\ UNCHANGED <<db_type, ap>>

AddColumn(tablename, new_col, new_type) ==
    /\ CanCall
    /\ \E r \in {add_column(St, tablename, new_col, new_type)} :
           Returned("add_column", tablename, r)

DropColumn(tablename, column) ==
    /\ CanCall
    /\ \E r \in {drop_column(St, tablename, column)} :
           Returned("drop_column", tablename, r)

\* append, or the append inside delete_duplicates or copy_table, has run up
\* to its loop, for which it opens a connection (database.py:550)
Entered(name, tablename, r, safe, robust, given, columns) ==
    /\ Install(r.st)
    /\ ret' = <<>>
    /\ ap' = IF r.outcome = "loop"
             THEN [ active |-> TRUE, caller |-> name, tablename |-> tablename,
                    data |-> r.data, columns |-> r.columns, safe |-> safe,
                    original_data_len |-> Len(r.data), retry_attempts |-> 0,
                    broke |-> FALSE, pending |-> <<>>, calls |-> <<>> ]
             ELSE IdleFrame
    /\ lastOp' = [Op(name, tablename) EXCEPT
                     !.done = r.outcome # "loop",
                     !.raised = r.outcome = "raise",
                     !.loop = r.outcome = "loop",
                     !.sql = r.st.sql,
                     !.unclosed = r.st.unclosed
                                      + (IF r.outcome = "loop" THEN 1 ELSE 0),
                     !.safe = safe, !.robust = robust,
                     !.given = given, !.submitted = Len(given),
                     !.skipped = r.skipped,
                     !.before = RowCount(db, tablename),
                     !.columns = columns]
    /\ UNCHANGED db_type

AppendBegin(tablename, data, create_table_if_needed, safe, robust) ==
    /\ CanCall
    /\ \E r \in {append_begin(St, tablename, data, create_table_if_needed,
                              robust)} :
           Entered("append", tablename, r, safe, robust, data, AllColumns)

DeleteDuplicates(tablename, grouping_columns) ==
    /\ CanCall
    /\ \E r \in {delete_duplicates(St, tablename, grouping_columns)} :
           Entered("delete_duplicates", tablename, r, TRUE, FALSE, <<>>,
                   IF grouping_columns.none THEN AllColumns
                   ELSE Cols(grouping_columns.names))

\* database.py:556-579: the chunk is executed and taken off data
AppendChunk ==
    /\ ap.active /\ ~ap.broke /\ ap.data # <<>>
    /\ ~InsertIsBadSql(db, ap)
    /\ ~ChunkKeyError(ap)
    /\ ~ChunkUnsupported(ap)
    /\ ~ChunkViolatesKey(db, ap)
    /\ \E chunk_calls \in {ChunkCalls(ap)} :
           /\ ap' = [ap EXCEPT
                        !.pending = @ \o StoredRows(db[ap.tablename],
                                                    ap.columns,
                                                    ChunkTuples(ap)),
                        !.calls = @ \o chunk_calls,
                        !.data = WithoutLastChunk(@)]
           /\ lastOp' = [lastOp EXCEPT !.sql = @ + Len(chunk_calls)]
    /\ UNCHANGED <<db_type, db, _pull_cache, cache_owner, tn_memo, qn_memo,
                   ct_memo, ret>>

\* database.py:580-587: what append does with sqlite3.OperationalError
\* after k rows of the chunk were executed.  pyodbc's errors are not of
\* that class, so on Access the error leaves append.
OperationalError(k, is_lock) ==
    LET executed == SubSeq(ChunkTuples(ap), 1, k)
    IN  /\ lastOp' = [lastOp EXCEPT
                         !.sql = @ + (IF ap.safe THEN k + 1 ELSE 1),
                         !.locked = IF is_lock THEN @ + 1 ELSE @,
                         !.failed = IF is_lock THEN @ ELSE @ + 1,
                         !.uncommitted = IF db_type # "SQLITE"
                                         THEN Len(ap.pending) + k ELSE @,
                         !.done = db_type # "SQLITE",
                         !.raised = db_type # "SQLITE"]
        /\ ap' = IF db_type # "SQLITE" THEN IdleFrame
                 ELSE [ap EXCEPT
                          !.pending =
                              IF k = 0 THEN @
                              ELSE @ \o StoredRows(db[ap.tablename],
                                                   ap.columns, executed),
                          !.calls = IF ap.safe
                                    THEN @ \o SubSeq(ChunkCalls(ap), 1, k)
                                    ELSE @,
                          !.retry_attempts =
                              IF @ < MaxRetries THEN @ + 1 ELSE @,
                          !.broke = ap.retry_attempts >= MaxRetries]
        /\ UNCHANGED <<db_type, db, _pull_cache, cache_owner, tn_memo,
                       qn_memo, ct_memo, ret>>

\* The backend reports that the database is locked, after k rows of the
\* chunk were executed
AppendChunkLocked(k) ==
    /\ ap.active /\ ~ap.broke /\ ap.data # <<>>
    /\ ~InsertIsBadSql(db, ap)
    /\ ~ChunkKeyError(ap)
    /\ ~ChunkUnsupported(ap)
    /\ ~ChunkViolatesKey(db, ap)
    /\ k < Len(LastChunk(ap.data))
    /\ OperationalError(k, TRUE)

\* The backend cannot execute the statement at all
AppendChunkBadSql ==
    /\ ap.active /\ ~ap.broke /\ ap.data # <<>>
    /\ ~ChunkKeyError(ap)
    /\ InsertIsBadSql(db, ap)
    /\ OperationalError(0, FALSE)

\* database.py:561-575: the backend refuses row i of the chunk with the
\* exception fault, and rows 1 .. i-1 stay executed on the connection.
\* When the batched insert raised an exception that line 563 catches, the
\* rows of the chunk are executed one at a time: with key columns the
\* first of them is refused when it was executed before, else row i is
\* refused again.  When line 570 catches that exception, line 571 prints
\* the heading of the report and line 573 reads col, a name that append
\* never binds, so that NameError leaves append unless the row has no
\* items.
Refused(i, fault) ==
    LET retried == ~ap.safe /\ fault \in Caught
        again == IF retried /\ i > 1 /\ db[ap.tablename].keys # <<>>
                 THEN 1 ELSE i
        fault_again ==
            IF again = i THEN fault
            ELSE IF db_type = "SQLITE" THEN "sqlite3.IntegrityError"
            ELSE "pyodbc.IntegrityError"
        heading == retried /\ fault_again \in Caught
    IN  lastOp' =
            [lastOp EXCEPT
                !.done = TRUE, !.raised = TRUE,
                !.sql = @ + (IF retried THEN 1 + again
                             ELSE IF ap.safe THEN i ELSE 1),
                !.fault = fault,
                !.retried = retried,
                !.offending = <<LastChunk(ap.data)[i]>>,
                !.heading = heading,
                !.shown = <<>>,
                !.error = IF heading /\ LastChunk(ap.data)[again] # <<>>
                          THEN "NameError" ELSE fault_again,
                !.uncommitted = Len(ap.pending) + i - 1
                                    + (IF retried THEN again - 1 ELSE 0)]

\* A row of the chunk lacks a column, or the backend refuses a row for its
\* key or for a value: an error leaves append, and what the connection had
\* executed is never committed
AppendChunkRaises ==
    /\ ap.active /\ ~ap.broke /\ ap.data # <<>>
    /\ \/ /\ ChunkKeyError(ap)
          /\ lastOp' = [lastOp EXCEPT
                           !.done = TRUE, !.raised = TRUE, !.sql = @ + 1,
                           !.error = "KeyError",
                           !.uncommitted = Len(ap.pending)]
       \/ /\ ~ChunkKeyError(ap)
          /\ ~InsertIsBadSql(db, ap)
          /\ ChunkViolatesKey(db, ap) \/ ChunkUnsupported(ap)
          /\ \E i \in {FirstOffending(db, ap)} :
                 \E fault \in Faults(ChunkTuples(ap)[i]) : Refused(i, fault)
    /\ ap' = IdleFrame
    /\ UNCHANGED <<db_type, db, _pull_cache, cache_owner, tn_memo, qn_memo,
                   ct_memo, ret>>

\* database.py:588-593, and what the caller does when append returns to it
\* (database.py:726 in delete_duplicates, database.py:805 in copy_table):
\* commit, close, clear the cache of the table, report
AppendFinish ==
    /\ ap.active
    /\ ap.broke \/ ap.data = <<>>
    /\ \E cleared \in
           {_clear_pull_cache(
                IF ap.tablename \in DOMAIN db
                THEN [St EXCEPT !.db = With(@, ap.tablename,
                          [db[ap.tablename] EXCEPT !.rows = @ \o ap.pending])]
                ELSE St,
                ap.tablename)} :
           Install(IF ap.caller = "delete_duplicates"
                   THEN _clear_pull_cache(cleared, ap.tablename)
                   ELSE IF ap.caller = "copy_table"
                   THEN [cleared EXCEPT !.ct = Empty]
                   ELSE cleared)
    /\ ap' = IdleFrame
    /\ lastOp' = [lastOp EXCEPT
                     !.done = TRUE, !.reported = ap.original_data_len,
                     !.committed = IF ap.tablename \in DOMAIN db
                                   THEN Len(ap.pending) ELSE 0,
                     !.calls = ap.calls, !.broke = ap.broke,
                     !.unclosed = @ - 1]
    /\ UNCHANGED <<db_type, ret>>

(***************************************************************************)
(* Another connection to the same database file                            *)
(***************************************************************************)

\* A table of one INTEGER column B, with these values in its rows
TableOfB(keys, values) ==
    [ cols |-> << <<"B">> >>, types |-> <<S_integer>>, keys |-> keys,
      rows |-> [i \in 1..Len(values) |-> <<PyInt(values[i])>>], idx |-> {} ]

\* Another connection creates the table and inserts a row
OtherCreates(tablename, n) ==
    /\ CanCall
    /\ tablename \notin DOMAIN db
    /\ db' = With(db, tablename, TableOfB(<<>>, <<n>>))
    /\ lastOp' = Op("other_connection", tablename)
    /\ UNCHANGED <<db_type, _pull_cache, cache_owner, tn_memo, qn_memo,
                   ct_memo, ap, ret>>

\* Another connection drops the table
OtherDrops(tablename) ==
    /\ CanCall
    /\ tablename \in DOMAIN db
    /\ db' = Without(db, {tablename})
    /\ lastOp' = Op("other_connection", tablename)
    /\ UNCHANGED <<db_type, _pull_cache, cache_owner, tn_memo, qn_memo,
                   ct_memo, ap, ret>>

(***************************************************************************)
(* The calls the model makes                                               *)
(***************************************************************************)

T_A == <<"A">>

T_A_B == <<"A", "_", "B">>

\* A table name that name_clean rejects
T_bad == <<"A", ";">>

C_B == <<"B">>

C_C == <<"C">>

\* A column name that name_clean rejects
C_bad == <<"B", ";">>

Tables == {T_A, T_A_B, T_bad}

PullColumns == {AllColumns, Cols(<<C_B>>), Cols(<<C_bad>>)}

\* The row dict {'B': n}
Row(n) == << <<C_B, PyInt(n)>> >>

\* A list of n rows with the values 1..n
Batch(n) == [i \in 1..n |-> Row(i)]

\* No table of the model grows past this many rows
MaxRows == 2

\* A row whose value create_table has no column type for
BoolRow == << <<C_B, PyBool(TRUE)>> >>

SmallBatches == {<<Row(1)>>, <<BoolRow>>}

\* The rows a locked insert may have executed before it failed
PartialPoints == {0, 1}

NoTables == Empty

TwoTables ==
    [t \in {T_A, T_A_B} |->
        IF t = T_A THEN TableOfB(<<>>, <<0, 0>>) ELSE TableOfB(<<C_B>>, <<1>>)]

InitHandle ==
    /\ db_type \in {"SQLITE", "ACCESS"}
    /\ _pull_cache = Empty
    /\ cache_owner = Empty
    /\ tn_memo = NoMemo
    /\ qn_memo = FALSE
    /\ ct_memo = Empty
    /\ ap = IdleFrame
    /\ lastOp = OpRecord("__init__", <<>>, 0)
    /\ ret = <<>>

Init ==
    /\ InitHandle
    /\ db \in {NoTables, TwoTables}

AppendLoop ==
    \/ AppendChunk
    \/ AppendChunkBadSql
    \/ AppendChunkRaises
    \/ AppendFinish

Next ==
    \/ \E t \in Tables, c \in PullColumns, fresh \in BOOLEAN : Pull(t, c, fresh)
    \/ TableNames
    \/ \E t \in Tables, force \in BOOLEAN :
           CreateTable(t, << <<C_B, S_int>> >>, force)
    \/ \E t \in Tables : DropTable(t)
    \/ \E t \in Tables : Update(t, C_B, One(PyInt(0)), C_B, One(PyInt(1)))
    \/ AddColumn(T_A, C_C, S_int)
    \/ DropColumn(T_A, C_C)
    \/ \E t \in Tables, g \in {NoGrouping, Grouping(<<C_B>>)} :
           DeleteDuplicates(t, g)
    \/ \E t \in Tables, data \in SmallBatches, create \in BOOLEAN :
           /\ RowCount(db, t) + Len(data) <= MaxRows
           /\ AppendBegin(t, data, create, FALSE, TRUE)
    \/ AppendLoop

Spec == Init /\ [][Next]_vars

(***************************************************************************)
(* The handle next to another connection that creates and drops tables     *)
(***************************************************************************)

NextExt ==
    \/ \E t \in {T_A, T_A_B}, c \in {AllColumns, Cols(<<C_B>>)},
          fresh \in BOOLEAN : Pull(t, c, fresh)
    \/ TableNames
    \/ \E t \in {T_A, T_A_B}, n \in {0, 1} : OtherCreates(t, n)
    \/ \E t \in {T_A, T_A_B} : OtherDrops(t)

SpecExt == Init /\ [][NextExt]_vars

(***************************************************************************)
(* One append of a batch, with a backend that may report that it is        *)
(* locked, and the fresh pull after it                                     *)
(***************************************************************************)

\* The longest list of rows given to append
MaxBatch == 250

\* A row with a value that the backend cannot bind to a parameter
TupleRow == << <<C_B, PyTuple>> >>

\* A row of a table whose one column, its primary key, has a name that
\* name_clean rejects
RejectedKeyRow == << <<C_bad, PyInt(1)>> >>

Batches ==
    {Batch(1), Batch(2), Batch(ChunkSize), Batch(ChunkSize + 1),
     Batch(MaxBatch), <<BoolRow>>, <<RejectedKeyRow>>, <<TupleRow>>}

InitAppend ==
    /\ InitHandle
    /\ db \in {NoTables,
               [t \in {T_A} |-> TableOfB(<<>>, <<0>>)],
               [t \in {T_A} |-> TableOfB(<<C_B>>, <<1>>)],
               [t \in {T_A} |->
                   [TableOfB(<<C_bad>>, <<1>>) EXCEPT !.cols = <<C_bad>>]]}

NextAppend ==
    \/ \E data \in Batches, safe, robust \in BOOLEAN :
           /\ lastOp.n = 0
           /\ AppendBegin(T_A, data, TRUE, safe, robust)
    \/ AppendChunk
    \/ \E k \in PartialPoints : AppendChunkLocked(k)
    \/ AppendChunkBadSql
    \/ AppendChunkRaises
    \/ AppendFinish
    \/ /\ lastOp.op = "append"
       /\ Pull(T_A, AllColumns, TRUE)

SpecAppend == InitAppend /\ [][NextAppend]_vars

(***************************************************************************)
(* Properties of the pull cache                                            *)
(***************************************************************************)

\* The calls that write to the table they name
WriteOps ==
    {"append", "update", "add_column", "drop_column", "delete_duplicates",
     "drop_table"}

\* The names of a pull are all names that name_clean accepts
ValidNames(tablename, columns) ==
    /\ name_clean(tablename)
    /\ \A i \in 1..Len(columns.names) : name_clean(columns.names[i])

\* Whether a cache key is the key of some projection of the table: the
\* table's name, or the name and "_" and more
KeyOfTable(key, tablename) ==
    \/ key = tablename
    \/ /\ Len(key) > Len(tablename)
       /\ SubSeq(key, 1, Len(tablename) + 1) = tablename \o <<"_">>

\* C1: with this handle the only writer, a pull without fresh of valid
\* names returns exactly the rows that a direct query of the backend for
\* the same table and columns returns at that moment.
C1_PullMatchesBackend ==
    (/\ lastOp.op = "pull"
     /\ ~lastOp.fresh
     /\ ValidNames(lastOp.table, lastOp.columns))
        => ret = list_of_dicts_from_query(db, lastOp.table, lastOp.columns)

C3_OtherTablesKept ==
    [][(\/ lastOp'.op \in WriteOps
        \/ lastOp'.op = "pull" /\ lastOp'.fresh)
           => \A key \in DOMAIN _pull_cache :
                  cache_owner[key].table # lastOp'.table
                      => /\ key \in DOMAIN _pull_cache'
                         /\ _pull_cache'[key] = _pull_cache[key]]_vars

\* C4: a pull with fresh=True of an existing table, with valid names,
\* returns the rows the backend holds at that moment, also when another
\* connection created or changed the table, and leaves them in the cache
\* under the key of the projection.
C4_FreshPullIsCurrent ==
    (/\ lastOp.op = "pull"
     /\ lastOp.fresh
     /\ lastOp.table \in DOMAIN db
     /\ ValidNames(lastOp.table, lastOp.columns))
        => /\ ret = list_of_dicts_from_query(db, lastOp.table, lastOp.columns)
           /\ requested_data_key(lastOp.table, lastOp.columns)
                  \in DOMAIN _pull_cache
           /\ _pull_cache[requested_data_key(lastOp.table, lastOp.columns)]
                  = ret

\* The names of the model that name_clean rejects
RejectedNames == {T_bad, C_bad}

\* A pull names a table, or lists a column, that name_clean rejects
PullOfRejectedName(op) ==
    /\ op.op = "pull"
    /\ \/ op.table \in RejectedNames
       \/ \E i \in 1..Len(op.columns.names) :
              op.columns.names[i] \in RejectedNames

C6_RejectedAppendIsNoOp ==
    (/\ lastOp.op = "append"
     /\ ~name_clean(lastOp.table)
     /\ lastOp.done)
        => /\ ~lastOp.raised
           /\ lastOp.sql = 0
           /\ TableOrNone(db, lastOp.table) = lastOp.orig

(***************************************************************************)
(* Properties of append                                                    *)
(***************************************************************************)

\* C7: when append has returned, a pull of the table with fresh=True returns
\* as many rows as the table had before, plus the rows given to append,
\* minus the rows skipped as duplicates.
C7_RowCountAfterAppend ==
    (/\ lastOp.op = "append"
     /\ lastOp.done
     /\ ~lastOp.raised)
        => Len(pull(St, lastOp.table, AllColumns, TRUE).val)
               = lastOp.before + lastOp.submitted - lastOp.skipped

\* The places of the rows in the insert calls: <<i, j>> is row j of call i
CallSlots(calls) ==
    {<<i, j>> : i \in 1..Len(calls), j \in 1..MaxBatch + 1}
        \cap {s \in (1..Len(calls)) \X (1..MaxBatch + 1) :
                 s[2] <= Len(calls[s[1]].rows)}

\* The rows given to the insert calls
RowsPassed(calls) ==
    {calls[s[1]].rows[s[2]] : s \in CallSlots(calls)}

\* The insert calls are batches of at most ChunkSize rows, all but one of
\* them full, that hold n rows, each a different row of the given ones
ChunkedCalls(calls, n, given) ==
    /\ Len(calls) = (n + ChunkSize - 1) \div ChunkSize
    /\ \A i \in 1..Len(calls) :
           calls[i].many /\ Len(calls[i].rows) <= ChunkSize
    /\ Cardinality({i \in 1..Len(calls) : Len(calls[i].rows) < ChunkSize})
           <= 1
    /\ Cardinality(CallSlots(calls)) = n
    /\ Cardinality(RowsPassed(calls)) = n
    /\ RowsPassed(calls)
           \subseteq {[j \in 1..Len(given[i]) |-> given[i][j][2]] :
                          i \in 1..Len(given)}

\* An append has gone through its loop and returned, and the backend
\* reported no error
AppendWithoutErrors ==
    /\ lastOp.op = "append"
    /\ lastOp.done
    /\ lastOp.loop
    /\ ~lastOp.raised
    /\ ~lastOp.broke
    /\ lastOp.locked = 0

\* C8, as the code has it: with no backend error and safe=False, an append
\* that brings N rows to its loop (the rows given to it, less the rows
\* skipped as duplicates) issues ceil(N/100) executemany calls, each with
\* at most 100 rows and all but one with exactly 100, gives every row to
\* exactly one call, and reports N rows.
C8_ChunkedCalls ==
    (AppendWithoutErrors /\ ~lastOp.safe)
        => /\ ChunkedCalls(lastOp.calls, lastOp.submitted - lastOp.skipped,
                           lastOp.given)
           /\ lastOp.reported = lastOp.submitted - lastOp.skipped

\* An append of MaxBatch rows has issued three calls, of 100, 100 and the
\* remaining rows, and reported MaxBatch rows
C8_Witness ==
    /\ AppendWithoutErrors
    /\ ~lastOp.safe
    /\ lastOp.submitted = MaxBatch
    /\ Len(lastOp.calls) = 3
    /\ Len(lastOp.calls[1].rows) = ChunkSize
    /\ Len(lastOp.calls[2].rows) = ChunkSize
    /\ Len(lastOp.calls[3].rows) = MaxBatch - 2 * ChunkSize
    /\ lastOp.reported = MaxBatch

\* C8, as stated: with no backend error every append of N rows issues
\* ceil(N/100) batched calls that hold each row once, and reports N rows
C8_EveryAppendBatched ==
    AppendWithoutErrors
        => /\ ChunkedCalls(lastOp.calls, lastOp.submitted, lastOp.given)
           /\ lastOp.reported = lastOp.submitted

\* C9: the row count append reports when it returns is the number of rows
\* the call has committed to the table.
C9_ReportedIsCommitted ==
    (/\ lastOp.op = "append"
     /\ lastOp.done
     /\ lastOp.loop
     /\ ~lastOp.raised)
        => lastOp.reported = lastOp.committed

\* C10: an append during which the backend reported that it is locked
\* ends by returning, not by raising, after at most MaxRetries retries.
C10_LockedAppendReturns ==
    (/\ lastOp.op = "append"
     /\ lastOp.locked > 0)
        => /\ ~lastOp.raised
           /\ lastOp.locked <= MaxRetries + 1

(***************************************************************************)
(* Properties of append's duplicate check                                  *)
(***************************************************************************)

\* The rows given to the append are rows of the table it names: each has
\* the table's columns, with integer values
IncomingMatchesTable ==
    /\ lastOp.orig # <<>>
    /\ \A i \in 1..Len(lastOp.given) :
           /\ Keys(lastOp.given[i]) = lastOp.orig[1].cols
           /\ \A j \in 1..Len(lastOp.given[i]) :
                  lastOp.given[i][j][2].ty = "int"

\* The key tuples of the rows the table held when the call began
ExistingKeys ==
    {[k \in 1..Len(lastOp.orig[1].keys) |->
         row[Pos(lastOp.orig[1].cols, lastOp.orig[1].keys[k])]]
     : row \in Range(lastOp.orig[1].rows)}

\* The given rows whose key tuple the table already held
IsDuplicate(d) ==
    /\ lastOp.orig[1].keys # <<>>
    /\ KeyTuple(d, lastOp.orig[1].keys) \in ExistingKeys

\* An append with the duplicate check on has ended, on Access, and the
\* backend was never locked
DedupedAppend ==
    /\ lastOp.op = "append"
    /\ lastOp.done
    /\ lastOp.robust
    /\ db_type = "ACCESS"
    /\ lastOp.locked = 0
    /\ IncomingMatchesTable

\* Two lists hold the same rows the same number of times, in any order
SameRows(a, b) ==
    /\ Len(a) = Len(b)
    /\ \A x \in Range(a) :
           Len(SelectSeq(a, LAMBDA r : r = x))
               = Len(SelectSeq(b, LAMBDA r : r = x))

\* C11: on Access, append with robust=True drops exactly the given rows
\* whose primary-key tuple is already in the table, inserts all the others
\* after the rows the table had, and reports as skipped the number of rows
\* dropped; with no key columns no row is skipped.
C11_DropsExactlyDuplicates ==
    DedupedAppend
        => /\ ~lastOp.raised
           /\ lastOp.skipped =
                  Len(SelectSeq(lastOp.given, IsDuplicate))
           /\ SameRows(db[lastOp.table].rows,
                  lastOp.orig[1].rows
                      \o [i \in 1..(lastOp.submitted - lastOp.skipped) |->
                             RowTuple(SelectSeq(lastOp.given,
                                          LAMBDA d : ~IsDuplicate(d))[i],
                                      lastOp.orig[1].cols)])

(***************************************************************************)
(* util.clean_data, applied to a list of rows and applied again to its     *)
(* result                                                                  *)
(***************************************************************************)

\* The column types of the tables clean_data is given
ColumnTypes ==
    {S_integer, S_real, S_double, S_text, S_varchar, S_timestamp, S_date,
     S_datetime}

\* The tables: column B alone, of any type, and columns B and C
Schemas ==
    { << <<C_B, t>> >> : t \in ColumnTypes }
        \cup { << <<C_B, t>>, <<C_C, S_text>> >> : t \in {S_integer, S_text} }

\* A string like 'YYYY-MM-DD'
DateString == <<"2", "0", "2", "0", "-", "0", "1", "-", "0", "2">>

\* util.py:186: the value is a string of ten characters with '-' at the
\* indices 4 and 7
IsDateString(value) ==
    /\ TypeName(value) = S_str
    /\ Len(value.s) = 10
    /\ value.s[5] = "-"
    /\ value.s[8] = "-"

\* The scalar values of a row: int, float, nan, str, bool, datetime and None
Scalars ==
    { PyInt(1), PyFloat(1), PyNaN, PyStr(<<"1">>), PyStr(<<" ", "1">>),
      PyStr(<<"a">>), PyStr(S_nan), PyStr(DateString), PyBool(TRUE),
      PyDatetime(1), PyNone }

\* The row dicts: no key, one key (a column or not), two keys, three keys
RowDicts ==
    {<<>>}
        \cup { << <<c, v>> >> : c \in {C_B, C_C}, v \in Scalars }
        \cup { << <<C_B, v>>, <<c, PyStr(<<"a">>)>> >> :
                   c \in {C_C, C_bad}, v \in Scalars }
        \cup { << <<C_C, PyInt(1)>>, <<C_B, PyInt(1)>>,
                  <<C_bad, PyInt(1)>> >> }

\* The longest list of rows clean_data is given
MaxList == 1

RowLists == UNION { [1..n -> RowDicts] : n \in 1..MaxList }

InitClean ==
    /\ db_type \in {"SQLITE", "ACCESS"}
    /\ \E schema \in Schemas :
           db = [t \in {T_A} |->
                    [cols |-> Keys(schema),
                     types |-> [i \in 1..Len(schema) |-> schema[i][2]],
                     keys |-> <<>>, rows |-> <<>>, idx |-> {}]]
    /\ \E data \in RowLists :
           lastOp = [OpRecord("clean_data", T_A, 0) EXCEPT
                        !.done = FALSE, !.given = data]
    /\ _pull_cache = Empty
    /\ cache_owner = Empty
    /\ tn_memo = NoMemo
    /\ qn_memo = FALSE
    /\ ct_memo = Empty
    /\ ap = IdleFrame
    /\ ret = <<>>

\* util.clean_data(data, columns_and_types, db_type) on the given rows, and
\* then on the list it returned
CleanData ==
    /\ lastOp.op = "clean_data"
    /\ lastOp.n < 2
    /\ ~lastOp.raised
    /\ \E r \in {clean_data(IF lastOp.n = 0 THEN lastOp.given ELSE ret,
                            SchemaOf(db, T_A), db_type)} :
           /\ ret' = IF r.raised THEN <<>> ELSE r.data
           /\ lastOp' = [lastOp EXCEPT
                            !.n = @ + 1, !.done = TRUE, !.raised = r.raised]
    /\ UNCHANGED <<db_type, db, _pull_cache, cache_owner, tn_memo, qn_memo,
                   ct_memo, ap>>

SpecClean == InitClean /\ [][CleanData]_vars

\* clean_data has been applied to the given rows once, or twice
CleanedOnce == lastOp.op = "clean_data" /\ lastOp.n = 1

CleanedTwice == lastOp.op = "clean_data" /\ lastOp.n = 2

\* C12: clean_data is idempotent: when clean_data(rows, schema) returns,
\* clean_data applied to its result returns too, and returns the same rows.
C12_CleanDataIdempotent ==
    CleanedTwice
        => /\ ~lastOp.raised
           /\ ret = clean_data(lastOp.given, SchemaOf(db, T_A), db_type).data

\* A second application has run on rows that the first application changed:
\* a missing column was filled and a value was converted
C12_Witness ==
    /\ CleanedTwice
    /\ ~lastOp.raised
    /\ ret # lastOp.given
    /\ \E i \in 1..Len(ret) :
           /\ Len(ret[i]) # Len(lastOp.given[i])
           /\ \E j \in 1..Len(lastOp.given[i]) :
                  /\ Has(ret[i], lastOp.given[i][j][1])
                  /\ Get(ret[i], lastOp.given[i][j][1]) # lastOp.given[i][j][2]

\* The default the row of a table gets for a column it lacks: 0 for a
\* numeric type, the empty string for a text type, None otherwise
DefaultOf(col_type) ==
    IF col_type \in {S_integer, S_real, S_double} THEN PyInt(0)
    ELSE IF col_type \in {S_text, S_varchar} THEN PyStr(<<>>)
    ELSE PyNone

\* C13: after clean_data(rows, schema), every row whose key set differed
\* from the schema's column set has exactly the schema's columns as keys:
\* each missing column holds its default and each other key is gone.
C13_KeySetIsSchema ==
    CleanedOnce
        => \A i \in 1..Len(lastOp.given) :
               Range(Keys(lastOp.given[i])) # Range(db[T_A].cols)
                   => /\ ~lastOp.raised
                      /\ Range(Keys(ret[i])) = Range(db[T_A].cols)
                      /\ \A c \in 1..Len(db[T_A].cols) :
                             ~Has(lastOp.given[i], db[T_A].cols[c])
                                 => Get(ret[i], db[T_A].cols[c])
                                        = DefaultOf(db[T_A].types[c])

\* The value cannot be made a value of the column's type: no number can be
\* read from it for a numeric column, or it is a number given for a date
\* or time column
Uncoercible(col_type, value) ==
    IF col_type \in {S_integer, S_real, S_double}
    THEN ~to_float(IF value.ty = "str" THEN PyStr(strip(value.s))
                   ELSE value).ok
    ELSE IF col_type \in {S_timestamp, S_date}
    THEN value.ty \in {"int", "float", "bool"}
    ELSE FALSE

\* The given rows have the columns of the table as their keys
KeysAreColumns ==
    \A i \in 1..Len(lastOp.given) :
        Range(Keys(lastOp.given[i])) = Range(db[T_A].cols)

\* C14: clean_data returns without raising for rows with values of every
\* scalar kind (int, float, str, bool, datetime, None), every column type
\* and both backends, and a value that cannot be coerced to the column's
\* type is replaced by None.
C14_NoValueAborts ==
    (CleanedOnce /\ KeysAreColumns)
        => /\ ~lastOp.raised
           /\ \A i \in 1..Len(lastOp.given) :
                  \A c \in 1..Len(db[T_A].cols) :
                      Uncoercible(db[T_A].types[c],
                                  Get(lastOp.given[i], db[T_A].cols[c]))
                          => Get(ret[i], db[T_A].cols[c]) = PyNone

(***************************************************************************)
(* delete_duplicates on a table of two columns, next to another connection *)
(* that inserts rows                                                       *)
(***************************************************************************)

\* Another connection inserts a row into the table, and commits
OtherInserts(tablename, row) ==
    /\ CanCall
    /\ tablename \in DOMAIN db
    /\ db' = [db EXCEPT ![tablename].rows = Append(@, row)]
    /\ lastOp' = Op("other_connection", tablename)
    /\ UNCHANGED <<db_type, _pull_cache, cache_owner, tn_memo, qn_memo,
                   ct_memo, ap, ret>>

\* A table of the INTEGER columns B and C with these rows
TableOfBC(rows) ==
    [ cols |-> <<C_B, C_C>>, types |-> <<S_integer, S_integer>>,
      keys |-> <<>>, rows |-> rows, idx |-> {} ]

\* The rows of the small tables: equal rows, and rows that agree in B only
PairRows == { <<PyInt(0), PyInt(0)>>, <<PyInt(0), PyInt(1)>>,
              <<PyInt(1), PyInt(0)>> }

\* The longest of the small tables
MaxTable == 3

InitDedup ==
    /\ InitHandle
    /\ \E rows \in UNION { [1..n -> PairRows] : n \in 0..MaxTable } :
           db = [t \in {T_A} |-> TableOfBC(rows)]

NextDedup ==
    \/ \E c \in {AllColumns, Cols(<<C_B>>)} : Pull(T_A, c, FALSE)
    \/ /\ Len(db[T_A].rows) < MaxTable
       /\ OtherInserts(T_A, <<PyInt(0), PyInt(0)>>)
    \/ \E g \in {NoGrouping, Grouping(<<C_B>>)} : DeleteDuplicates(T_A, g)
    \/ AppendChunk
    \/ AppendFinish

SpecDedup == InitDedup /\ [][NextDedup]_vars

\* The grouping columns of the delete_duplicates call lastOp records
GroupedBy ==
    IF lastOp.columns.all THEN lastOp.orig[1].cols ELSE lastOp.columns.names

\* The values a row of the table has in these columns
GroupOf(table, row, columns) ==
    [k \in 1..Len(columns) |-> row[Pos(table.cols, columns[k])]]

\* The rows of the table that no later row of the same group follows, in
\* the order the table has them
LastOfEachGroup(table, columns) ==
    LET n == Len(table.rows)
        last == SelectSeq([r \in 1..n |-> r],
                    LAMBDA r : \A r2 \in (r + 1)..n :
                        GroupOf(table, table.rows[r2], columns)
                            # GroupOf(table, table.rows[r], columns))
    IN  [i \in 1..Len(last) |-> table.rows[last[i]]]

\* C15: after delete_duplicates(T, G) the table holds, of every group of
\* rows with the same values in G, the row appended last and no other;
\* the rows left are unchanged and in the order they had.
C15_KeepsLastOfEachGroup ==
    (/\ lastOp.op = "delete_duplicates"
     /\ lastOp.done
     /\ ~lastOp.raised
     /\ lastOp.orig # <<>>)
        => db[lastOp.table].rows = LastOfEachGroup(lastOp.orig[1], GroupedBy)

(***************************************************************************)
(* One update of a table of two columns                                    *)
(***************************************************************************)

\* The match_val arguments: a value, and lists of different values
MatchVals == {One(PyInt(0)), Many(<<PyInt(0)>>), Many(<<PyInt(0), PyInt(1)>>)}

\* The update_val arguments: a value, and lists of one and of two values
UpdateVals == {One(PyInt(2)), Many(<<PyInt(2)>>), Many(<<PyInt(1), PyInt(2)>>)}

\* The column arguments: the columns of the table, and a name that is none
UpdateColumns == {C_B, C_C, <<"D">>}

NextUpdate ==
    \E match_col, update_col \in UpdateColumns,
       match_val \in MatchVals, update_val \in UpdateVals :
        /\ lastOp.n = 0
        /\ match_val.list \/ ~update_val.list
        /\ Update(T_A, match_col, match_val, update_col, update_val)

SpecUpdate == InitDedup /\ [][NextUpdate]_vars

\* The arguments of the update call lastOp records are ones that update
\* acts on: both columns are columns of the table, and two lists have the
\* same length
UpdateApplies ==
    /\ InList(lastOp.given[1], lastOp.orig[1].cols)
    /\ InList(lastOp.given[3], lastOp.orig[1].cols)
    /\ (lastOp.given[2].list /\ lastOp.given[4].list)
           => Len(lastOp.given[2].vals) = Len(lastOp.given[4].vals)

\* The row as the claim has it after the call: when its match_col cell, as
\* the call found it, is the i-th match value, its update_col cell holds
\* the i-th update value, or the one update value
UpdatedRow(row) ==
    LET cols == lastOp.orig[1].cols
        hits == {i \in 1..Len(lastOp.given[2].vals) :
                    row[Pos(cols, lastOp.given[1])] = lastOp.given[2].vals[i]}
    IN  IF UpdateApplies /\ hits # {}
        THEN [row EXCEPT ![Pos(cols, lastOp.given[3])] =
                 IF lastOp.given[4].list
                 THEN lastOp.given[4].vals[CHOOSE i \in hits : TRUE]
                 ELSE lastOp.given[4].vals[1]]
        ELSE row

\* C16: update changes the update_col cell of the rows whose match_col
\* cell equals a match value, to the update value that goes with it, and
\* nothing else: other cells, the number of rows and their order stay, and
\* no row changes when a column is not in the table or two lists differ in
\* length.
C16_UpdateChangesOnlyMatches ==
    (lastOp.op = "update" /\ lastOp.orig # <<>>)
        => db[lastOp.table].rows
               = [r \in 1..Len(lastOp.orig[1].rows) |->
                     UpdatedRow(lastOp.orig[1].rows[r])]

(***************************************************************************)
(* Properties of the rows an append leaves in the table                    *)
(***************************************************************************)

\* C17: after an append to a new or an empty table that met no backend
\* error, pull of the table returns the rows given to append, in the order
\* they were given, however many they are.
C17_PullReturnsSubmittedInOrder ==
    (AppendWithoutErrors /\ lastOp.before = 0)
        => pull(St, lastOp.table, AllColumns, FALSE).val = lastOp.given

(***************************************************************************)
(* One append of a row that lacks a column of the table                    *)
(***************************************************************************)

\* Rows without the column C of the table: one with column B alone, and
\* one that has a key D in the place of C
PartialRows ==
    { << <<C_B, PyInt(1)>> >>,
      << <<C_B, PyInt(1)>>, <<<<"D">>, PyInt(1)>> >> }

NextPartial ==
    \/ \E row \in PartialRows, safe, robust \in BOOLEAN :
           /\ lastOp.n = 0
           /\ AppendBegin(T_A, <<row>>, TRUE, safe, robust)
    \/ AppendChunk
    \/ AppendFinish

SpecPartial == InitDedup /\ [][NextPartial]_vars

\* An append of one row that lacks a column of the table it names has ended
PartialRowAppended ==
    /\ lastOp.op = "append"
    /\ lastOp.done
    /\ lastOp.orig # <<>>
    /\ Len(lastOp.given) = 1
    /\ \E c \in 1..Len(lastOp.orig[1].cols) :
           ~Has(lastOp.given[1], lastOp.orig[1].cols[c])

\* The row of the table made of the given row: its values in the columns
\* it has, the default in the columns it lacks
WithDefaults(table, d) ==
    [c \in 1..Len(table.cols) |->
        IF Has(d, table.cols[c]) THEN Get(d, table.cols[c])
        ELSE DefaultOf(table.types[c])]

\* C18: append of a row that lacks columns of the table does not raise;
\* with robust=True it adds one row, the given row with the defaults in
\* the columns it lacks, and with robust=False it leaves the table as it
\* was.
C18_PartialRow ==
    PartialRowAppended
        => /\ ~lastOp.raised
           /\ db[lastOp.table].rows =
                  IF lastOp.robust
                  THEN Append(lastOp.orig[1].rows,
                              WithDefaults(lastOp.orig[1], lastOp.given[1]))
                  ELSE lastOp.orig[1].rows

(***************************************************************************)
(* create_table with column types the type map has and has not             *)
(***************************************************************************)

S_bad_type == <<"b", "a", "d", "_", "t", "y", "p", "e">>

\* The columns_and_types arguments: types of the map, as a string and as a
\* Python type, and types that are not in it
CreateSchemas ==
    { << <<C_B, S_int>> >>,
      << <<C_B, Py_str>>, <<C_C, S_float>> >>,
      << <<C_B, S_bool>> >>,
      << <<C_B, Py_str>>, <<C_C, S_bad_type>> >> }

NextCreate ==
    \/ \E t \in {T_A, T_A_B}, cat \in CreateSchemas, force \in BOOLEAN :
           CreateTable(t, cat, force)
    \/ TableNames
    \/ \E t \in {T_A, T_A_B} : DropTable(t)

SpecCreate == Init /\ [][NextCreate]_vars

\* The create_table call that lastOp records named a type for a column
\* that the type map of the backend does not have
UnmappedType(op) ==
    /\ op.op = "create_table"
    /\ \E i \in 1..Len(op.given[1]) :
           ~InMap(type_map(db_type),
                  IF IsStr(op.given[1][i][2]) THEN Lower(op.given[1][i][2])
                  ELSE op.given[1][i][2])

\* C19: create_table with a column type that is not in the type map of the
\* backend returns without raising and leaves every table as it was: none
\* is created, and with force_overwrite=True none is dropped.
C19_UnmappedTypeCreatesNothing ==
    [][(lastOp'.n # lastOp.n /\ UnmappedType(lastOp'))
           => /\ ~lastOp'.raised
              /\ db' = db]_vars

\* create_table was called with force_overwrite=True and an unmapped column
\* type on a table that exists, and the table is as it was
C19_Witness ==
    /\ UnmappedType(lastOp)
    /\ lastOp.given[2]
    /\ lastOp.orig # <<>>
    /\ lastOp.orig[1].rows # <<>>
    /\ TableOrNone(db, lastOp.table) = lastOp.orig
    /\ ~lastOp.raised

(***************************************************************************)
(* util.name_clean, applied to a name                                      *)
(***************************************************************************)

\* The characters of the names that are letters, digits and the underscore
WordChars == {"d", "D", "r", "o", "p", "_", "1"}

\* The characters of SQL: parentheses, semicolon, quotes, brackets and
\* operator characters
SqlChars ==
    { "(", ")", ";", "'", "\"", "[", "]", "=", "+", "-", "*", "/", "<", ">",
      "%", "&", "^", "!", "~" }

\* The longest name made of letters, digits and underscores
MaxNameLen == 4

\* The names given to name_clean: words, and words with one SQL character
\* or one comment marker in them
Names ==
    UNION { [1..n -> WordChars] : n \in 0..MaxNameLen }
        \cup { <<a, c, b>> : a \in WordChars, c \in SqlChars, b \in WordChars }
        \cup { <<a, "-", "-", b>> : a \in WordChars, b \in WordChars }
        \cup { <<a, "/", "*", b>> : a \in WordChars, b \in WordChars }

InitName ==
    /\ db_type \in {"SQLITE", "ACCESS"}
    /\ db = NoTables
    /\ _pull_cache = Empty
    /\ cache_owner = Empty
    /\ tn_memo = NoMemo
    /\ qn_memo = FALSE
    /\ ct_memo = Empty
    /\ ap = IdleFrame
    /\ ret = <<>>
    /\ \E name \in Names :
           lastOp = [OpRecord("name_clean", <<>>, 0) EXCEPT
                        !.done = FALSE, !.given = name]

\* util.name_clean(name): the list ret holds what it returned
NameClean ==
    /\ lastOp.op = "name_clean"
    /\ ~lastOp.done
    /\ ret' = <<name_clean(lastOp.given)>>
    /\ lastOp' = [lastOp EXCEPT !.n = @ + 1, !.done = TRUE]
    /\ UNCHANGED <<db_type, db, _pull_cache, cache_owner, tn_memo, qn_memo,
                   ct_memo, ap>>

SpecName == InitName /\ [][NameClean]_vars

\* The name holds a character of SQL, or DROP in any letter case
HasSqlChar(name) == \E i \in 1..Len(name) : name[i] \in SqlChars

HasDrop(name) == Contains(<<"D", "R", "O", "P">>, Upper(name))

\* C20: name_clean returns False for every name that holds a parenthesis,
\* a semicolon, a quote, a square bracket, an operator character or a
\* comment marker, or DROP in any letter case, and True for every name of
\* letters, digits and underscores without DROP.
C20_NameCleanRejectsSql ==
    (lastOp.op = "name_clean" /\ lastOp.done)
        => ret = <<~(HasSqlChar(lastOp.given) \/ HasDrop(lastOp.given))>>

(***************************************************************************)
(* DataBase.pull_where_id_in_list on a table of two columns                *)
(***************************************************************************)

\* The match values of one query: match_values[:100] and match_values[100:]
SliceSize == 100

FirstSlice(match_values) ==
    SubSeq(match_values, 1,
           IF Len(match_values) > SliceSize THEN SliceSize
           ELSE Len(match_values))

AfterFirstSlice(match_values) ==
    SubSeq(match_values, SliceSize + 1, Len(match_values))

\* The rows SELECT ... FROM [tablename] WHERE id_col in (?,...,?) gives for
\* one slice, as util.list_of_dicts_from_query returns them: the empty list
\* when the statement fails (no such table, no such column)
select_where_in(dbase, tablename, id_col, subset, columns) ==
    IF \/ tablename \notin DOMAIN dbase
       \/ ~SqlIdentOk(id_col)
    THEN <<>>
    ELSE IF ~InList(id_col, dbase[tablename].cols) THEN <<>>
    ELSE Only({
           list_of_dicts_from_query(
               [t \in {tablename} |->
                   [table EXCEPT !.rows =
                       SelectSeq(table.rows,
                           LAMBDA row :
                               row[Pos(table.cols, id_col)] \in wanted)]],
               tablename, columns)
           : table \in {dbase[tablename]},
             wanted \in {Range(subset) \ {PyNone}} })

\* database.py:304-309: the loop over the slices of match_values
RECURSIVE pull_where_id_in_list(_, _, _, _, _)
pull_where_id_in_list(dbase, tablename, id_col, match_values, columns) ==
    IF Len(match_values) > 0
    THEN select_where_in(dbase, tablename, id_col, FirstSlice(match_values),
                         columns)
             \o pull_where_id_in_list(dbase, tablename, id_col,
                                      AfterFirstSlice(match_values), columns)
    ELSE <<>>

PullWhereIdInList(tablename, id_col, match_values, columns) ==
    /\ CanCall
    /\ ret' = pull_where_id_in_list(db, tablename, id_col, match_values,
                                    columns)
    /\ lastOp' = [Op("pull_where_id_in_list", tablename) EXCEPT
                     !.columns = columns,
                     !.given = <<id_col, match_values>>,
                     !.sql = (Len(match_values) + SliceSize - 1)
                                 \div SliceSize]
    /\ UNCHANGED <<db_type, db, _pull_cache, cache_owner, tn_memo, qn_memo,
                   ct_memo, ap>>

\* The longest list of match values
MaxValues == 201

\* The list of the integers 0 .. n-1
Ints(n) == [i \in 1..n |-> PyInt(i - 1)]

\* The lists of match values: empty, short with and without a repeated
\* value, of one slice, and of more slices with and without a value that
\* comes again in a later slice
ValueLists ==
    { <<>>, Ints(1), Ints(2), <<PyInt(0), PyInt(0)>>, <<PyInt(1), PyInt(5)>>,
      Ints(SliceSize), Ints(SliceSize + 1), Ints(SliceSize) \o Ints(1),
      Ints(MaxValues) }

NextIdList ==
    \E id_col \in UpdateColumns, match_values \in ValueLists,
       columns \in {AllColumns, Cols(<<C_C>>)} :
        /\ lastOp.n = 0
        /\ PullWhereIdInList(T_A, id_col, match_values, columns)

SpecIdList == InitDedup /\ [][NextIdList]_vars

\* The rows of the table whose id_col cell is one of the match values, as
\* the dicts of the columns asked for
RowsWithIdIn(table, id_col, match_values, columns) ==
    IF ~InList(id_col, table.cols) THEN <<>>
    ELSE list_of_dicts_from_query(
             [t \in {T_A} |->
                 [table EXCEPT !.rows =
                     SelectSeq(table.rows,
                         LAMBDA row : InList(row[Pos(table.cols, id_col)],
                                             match_values))]],
             T_A, columns)

\* C21: pull_where_id_in_list(T, id_col, values) returns the rows of T
\* whose id_col cell is in values, each of them once, for a list of any
\* length and with any repetitions; an empty list gives no rows.
C21_EachMatchingRowOnce ==
    lastOp.op = "pull_where_id_in_list"
        => /\ SameRows(ret, RowsWithIdIn(db[T_A], lastOp.given[1],
                                         lastOp.given[2], lastOp.columns))
           /\ lastOp.given[2] = <<>> => ret = <<>>

(***************************************************************************)
(* DataBase.create_index and DataBase.copy_table, and the calls that       *)
(* change the tables and their columns                                     *)
(***************************************************************************)

\* The names the schema of the database has in use: its tables and indexes
SchemaNames(dbase) ==
    DOMAIN dbase \cup {i[1] : i \in UNION {dbase[t].idx : t \in DOMAIN dbase}}

\* DataBase.create_index with unique=False: [st, raised].  An error of the
\* statement leaves through __exit__, which commits and closes.
create_index(st, tablename, column, index_name) ==
    IF db_type = "SQLITE"
    THEN Only({
           IF \/ tablename \notin DOMAIN st.db
              \/ ~SqlIdentOk(tablename)
              \/ ~SqlIdentOk(name)
              \/ name \in SchemaNames(st.db)
           THEN [st |-> [st EXCEPT !.sql = @ + 1], raised |-> TRUE]
           ELSE IF ~InList(column, st.db[tablename].cols)
           THEN [st |-> [st EXCEPT !.sql = @ + 1], raised |-> TRUE]
           ELSE [st |-> [st EXCEPT
                           !.db = With(@, tablename,
                               [st.db[tablename] EXCEPT
                                   !.idx = @ \cup {<<name, column>>}]),
                           !.ct = Empty, !.sql = @ + 1],
                 raised |-> FALSE]
           : name \in {IF index_name = <<>> THEN column ELSE index_name} })
    ELSE [st |-> st, raised |-> FALSE]

\* key.lower(), key.upper() or key, as column_case says
CaseOf(key, column_case) ==
    IF column_case = "lower" THEN Lower(key)
    ELSE IF column_case = "upper" THEN Upper(key)
    ELSE key

\* {col.lower(): val for col, val in d.items()}, and its like
RECURSIVE RenameKeys(_, _)
RenameKeys(d, column_case) ==
    IF d = <<>> THEN <<>>
    ELSE Put(RenameKeys(SubSeq(d, 1, Len(d) - 1), column_case),
             CaseOf(d[Len(d)][1], column_case), d[Len(d)][2])

\* DataBase.copy_table, up to the write loop of the append it calls:
\* [st, outcome, data, columns, skipped], as append_begin gives.  other is
\* the database of other_db, a handle that has memoized nothing; its call of
\* table_names takes the one slot of the lru_cache that the handles share.
copy_table(st, other, tablename, new_tablename, column_case) ==
    IF tablename \notin DOMAIN other
    THEN AppendOut([st EXCEPT !.tn = NoMemo], "return", <<>>, <<>>, 0)
    ELSE Only({
      Only({
        IF dr.raised THEN AppendOut(dr.st, "raise", <<>>, <<>>, 0)
        ELSE Only({
          IF cr.raised THEN AppendOut(cr.st, "raise", <<>>, <<>>, 0)
          ELSE IF table_data = <<>>
          THEN AppendOut([cr.st EXCEPT !.ct = Empty], "return", <<>>, <<>>,
                         0)
          ELSE Only({
            IF ab.outcome = "return"
            THEN AppendOut([ab.st EXCEPT !.ct = Empty], "return", <<>>,
                           <<>>, ab.skipped)
            ELSE ab
            : ab \in {append_begin(cr.st, target, table_data, TRUE, TRUE)} })
          : cr \in {create_table(dr.st, target, columns_and_types_,
                                 FALSE)} })
        : dr \in {drop_table([st EXCEPT !.tn = NoMemo], target)} })
      : target \in {IF new_tablename # <<>> THEN new_tablename
                    ELSE tablename},
        columns_and_types_ \in
            {RenameKeys(SchemaOf(other, tablename), column_case)},
        table_data \in
            {Only({ [i \in 1..Len(data) |-> RenameKeys(data[i], column_case)]
                    : data \in
                        {IF name_clean(tablename)
                         THEN list_of_dicts_from_query(other, tablename,
                                                       AllColumns)
                         ELSE <<>>} })} })

ColumnsAndTypes(tablename) ==
    /\ CanCall
    /\ \E r \in {columns_and_types(St, tablename)} :
           /\ Install(r.st)
           /\ ret' = r.val
           /\ lastOp' = [Op("columns_and_types", tablename) EXCEPT
                            !.sql = r.st.sql, !.unclosed = r.st.unclosed]
    /\ UNCHANGED <<db_type, ap>>

CreateIndex(tablename, column, index_name) ==
    /\ CanCall
    /\ \E r \in {create_index(St, tablename, column, index_name)} :
           Returned("create_index", tablename, r)

CopyTable(other, tablename, new_tablename, column_case) ==
    /\ CanCall
    /\ \E r \in {copy_table(St, other, tablename, new_tablename,
                            column_case)} :
           Entered("copy_table",
                   IF new_tablename # <<>> THEN new_tablename ELSE tablename,
                   r, FALSE, TRUE, <<>>, AllColumns)

\* The database of the handle that copy_table copies from
OtherDb == [t \in {T_A} |-> TableOfB(<<>>, <<1>>)]

NextDDL ==
    \/ TableNames
    \/ \E t \in {T_A, T_A_B} : ColumnsAndTypes(t)
    \/ \E t \in {T_A, T_A_B}, force \in BOOLEAN :
           CreateTable(t, << <<C_B, S_int>> >>, force)
    \/ \E t \in {T_A, T_A_B} : DropTable(t)
    \/ AddColumn(T_A, C_C, S_int)
    \/ \E c \in {C_B, C_C} : DropColumn(T_A, c)
    \/ \E t \in {T_A, T_A_B}, index_name \in {<<>>, <<"i">>} :
           CreateIndex(t, C_B, index_name)
    \/ \E t \in {T_A, T_A_B}, data \in SmallBatches :
           /\ RowCount(db, t) + Len(data) <= MaxRows
           /\ AppendBegin(t, data, TRUE, FALSE, TRUE)
    \/ \E new_tablename \in {<<>>, T_A_B}, column_case \in {"same", "lower"} :
           CopyTable(OtherDb, T_A, new_tablename, column_case)
    \/ AppendLoop

SpecDDL == Init /\ [][NextDDL]_vars

\* The calls that create, drop or alter tables
SchemaOps ==
    {"create_table", "drop_table", "add_column", "drop_column",
     "create_index", "append", "copy_table"}

\* C22: after any sequence of create_table, drop_table, add_column,
\* drop_column, create_index, append and copy_table calls through the
\* handle, table_names() is the sorted list of the tables the backend has
\* and columns_and_types(T) is the schema the backend has for T.
C22_MemosAreCurrent ==
    ~ap.active
        => /\ table_names(St).val = SortedSet(DOMAIN db)
           /\ \A t \in Tables :
                  columns_and_types(St, t).val = SchemaOf(db, t)

\* A call has changed a table's columns, or created or dropped the table,
\* while table_names and columns_and_types of that table were memoized
C22_Witness ==
    /\ lastOp.op \in SchemaOps
    /\ lastOp.done
    /\ lastOp.tn0
    /\ lastOp.table \in lastOp.ct0
    /\ SchemaOf(db, lastOp.table)
           # (IF lastOp.orig = <<>> THEN <<>>
              ELSE SchemaOf([t \in {lastOp.table} |-> lastOp.orig[1]],
                            lastOp.table))

(***************************************************************************)
(* Properties of the connections the calls open                            *)
(***************************************************************************)

\* C23: when a call through the handle has ended, by returning or by
\* aborting, every connection it opened has been closed, and every row it
\* executed on a connection has been committed.
C23_NoConnectionLeftOpen ==
    lastOp.done => lastOp.unclosed = 0 /\ lastOp.uncommitted = 0

(***************************************************************************)
(* Properties of the errors of append's write loop                         *)
(***************************************************************************)

\* C24: when the batched insert of a chunk fails because the backend
\* refuses a row for its key or for the type of a value, append executes the
\* rows of the chunk one at a time, reports the items of the first row
\* refused, and the exception that leaves append is the one the backend
\* raised.
C24_ReportsRowThenReraises ==
    (/\ lastOp.op = "append"
     /\ lastOp.done
     /\ ~lastOp.safe
     /\ lastOp.fault # "")
        => /\ lastOp.retried
           /\ lastOp.heading
           /\ lastOp.shown = lastOp.offending
           /\ lastOp.error = lastOp.fault

(***************************************************************************)
(* Properties of the conversions of util.clean_data                        *)
(***************************************************************************)

\* The family of a column type: numeric, text or time
FamilyOf(col_type) ==
    IF col_type \in {S_integer, S_real, S_double, S_float} THEN "numeric"
    ELSE IF col_type \in {S_text, S_varchar, S_str, S_char} THEN "text"
    ELSE "time"

\* The family of the type of a value
ValueFamily(value) ==
    IF value.ty \in {"int", "float"} THEN "numeric"
    ELSE IF value.ty = "str" THEN "text"
    ELSE "time"

\* The two families are the same, or they are the time and the text family
SameFamily(f1, f2) == f1 = f2 \/ {f1, f2} = {"time", "text"}

\* The value a cell holds after the conversion: the number read from a
\* trimmed string for a numeric column, or None when there is none; the
\* string form of the value for a text column; None otherwise
Coerced(col_type, value) ==
    IF FamilyOf(col_type) = "numeric" /\ value.ty = "str"
    THEN LET f == to_float(PyStr(strip(value.s)))
         IN  IF f.ok /\ f.val # PyNaN THEN f.val ELSE PyNone
    ELSE IF FamilyOf(col_type) = "text" THEN to_str(value)
    ELSE PyNone

\* The given rows have the table's columns as keys, and values that are
\* integers, floats other than nan, strings and datetimes
PlainRows ==
    /\ KeysAreColumns
    /\ \A i \in 1..Len(lastOp.given) :
           \A j \in 1..Len(lastOp.given[i]) :
               /\ lastOp.given[i][j][2].ty \in {"int", "float", "str", "datetime"}
               /\ lastOp.given[i][j][2] # PyNaN

\* C25: clean_data converts every value whose type is of another family
\* than the type of its column: a string in a numeric column becomes the
\* number read from the trimmed string, or None; a value that is no string
\* in a text column becomes its string form; any other becomes None.  A
\* numeric type and a text type are never of the same family.
C25_CoercesAcrossFamilies ==
    (CleanedOnce /\ PlainRows)
        => /\ ~lastOp.raised
           /\ \A i \in 1..Len(lastOp.given) :
                  \A c \in 1..Len(db[T_A].cols) :
                      LET value == Get(lastOp.given[i], db[T_A].cols[c])
                          col_type == db[T_A].types[c]
                      IN  ~SameFamily(FamilyOf(col_type), ValueFamily(value))
                              => Get(ret[i], db[T_A].cols[c])
                                     = Coerced(col_type, value)

\* The types of the columns that hold dates and times
DateColumnTypes == {S_date, S_datetime, S_timestamp}

\* C26: a string like 'YYYY-MM-DD' given for a column of a date or time
\* type is left as it is by clean_data, on SQLite and on Access.
C26_DateStringUnchanged ==
    (CleanedOnce /\ KeysAreColumns)
        => \A i \in 1..Len(lastOp.given) :
               \A c \in 1..Len(db[T_A].cols) :
                   LET value == Get(lastOp.given[i], db[T_A].cols[c])
                   IN  (IsDateString(value)
                            /\ db[T_A].types[c] \in DateColumnTypes)
                           => /\ ~lastOp.raised
                              /\ Get(ret[i], db[T_A].cols[c]) = value

(***************************************************************************)
(* Properties of the retries of append                                     *)
(***************************************************************************)

\* C27: append tries a chunk again only when the backend reports that the
\* database is locked.  After any other failure of the chunk (no such
\* table, no such column, a malformed statement) append does not try again
\* and does not return normally with a report of inserted rows: the error
\* leaves append.
C27_OnlyLockIsRetried ==
    (lastOp.op = "append" /\ lastOp.failed > 0)
        => /\ ~ap.active
           /\ lastOp.failed = 1
           /\ lastOp.done
           /\ lastOp.raised
           /\ lastOp.reported = 0

(***************************************************************************)
(* Properties of the keys of the pull cache                                *)
(***************************************************************************)

\* Two projections are the same: the same table, and the same columns or
\* all columns in both
SameProjection(p, q) ==
    /\ p.table = q.table
    /\ p.columns.all = q.columns.all
    /\ ~p.columns.all => Range(p.columns.names) = Range(q.columns.names)

\* C28: two different projections never have the same key in the pull
\* cache: the entry under the key of a pull's projection was loaded by a
\* pull of that projection (a pull of all columns of table A_B and a pull
\* of column B of table A do not share an entry).
C28_KeysTellProjectionsApart ==
    (lastOp.op = "pull"
         /\ requested_data_key(lastOp.table, lastOp.columns)
                \in DOMAIN _pull_cache)
        => SameProjection(
               cache_owner[requested_data_key(lastOp.table, lastOp.columns)],
               [table |-> lastOp.table, columns |-> lastOp.columns])

(***************************************************************************)
(* One delete_duplicates whose rewrite of the table may fail               *)
(***************************************************************************)

NextRewrite ==
    \/ \E g \in {NoGrouping, Grouping(<<C_B>>)} :
           /\ lastOp.n = 0
           /\ DeleteDuplicates(T_A, g)
    \/ AppendChunk
    \/ \E k \in PartialPoints : AppendChunkLocked(k)
    \/ AppendFinish

SpecRewrite == InitDedup /\ [][NextRewrite]_vars

\* The groups of the rows of a table: the values the rows have in the
\* grouping columns
GroupsOf(table, columns) ==
    { GroupOf(table, table.rows[r], columns) : r \in 1..Len(table.rows) }

\* C29: delete_duplicates loses no group where it reads the table,
\* collapses the rows and writes them again: when the rewrite fails or
\* stops early after the table was emptied, the table still holds a row of
\* every group.
C29_NoGroupLost ==
    (/\ lastOp.op = "delete_duplicates"
     /\ lastOp.done
     /\ lastOp.orig # <<>>)
        => GroupsOf(db[lastOp.table], GroupedBy)
               = GroupsOf(lastOp.orig[1], GroupedBy)

(***************************************************************************)
(* One append of rows that may have the same key, and the rows it hands    *)
(* to its write loop                                                       *)
(***************************************************************************)

\* Two rows with the same value in column B
TwinRows == <<Row(2), Row(2)>>

\* The lists of rows given to append: different keys, the same key twice,
\* and a key column whose name name_clean rejects
KeyBatches == {Batch(2), TwinRows, <<RejectedKeyRow>>}

NextKeys ==
    \/ \E data \in KeyBatches, safe, robust \in BOOLEAN :
           /\ lastOp.n = 0
           /\ AppendBegin(T_A, data, TRUE, safe, robust)
    \/ AppendChunk
    \/ AppendChunkRaises
    \/ AppendFinish

SpecKeys == InitAppend /\ [][NextKeys]_vars

\* append with robust=True on Access has filtered the given rows of a table
\* with key columns and stands before the first chunk
FilteredForWriter ==
    /\ lastOp.op = "append"
    /\ lastOp.loop
    /\ lastOp.robust
    /\ db_type = "ACCESS"
    /\ ap.active
    /\ ap.pending = <<>>
    /\ Len(ap.data) = ap.original_data_len
    /\ lastOp.orig # <<>>
    /\ key_columns(St, ap.tablename) # <<>>

\* C30: after the duplicate filtering of append, on a backend that reports
\* key columns, no row handed to the writer has the key tuple of a row of
\* the table, and no two rows handed to the writer have the same key tuple.
C30_NoKeyCollisionsHandedOn ==
    FilteredForWriter
        => \E keys \in {key_columns(St, ap.tablename)} :
               /\ \A i \in 1..Len(ap.data) :
                      KeyTuple(ap.data[i], keys)
                          \notin ExistingKeys
               /\ \A i, j \in 1..Len(ap.data) :
                      i # j => KeyTuple(ap.data[i], keys)
                                   # KeyTuple(ap.data[j], keys)

====
